---------------------------- MODULE Spec2Model ----------------------------
(***************************************************************************)
(* Model of the agent-bauer QA pipeline: the agent-response parsing        *)
(* pipeline (extraction, recovery, normalization, schema validation), the  *)
(* retry-with-alerts wrapper, the analysis steps and the composition of    *)
(* the full pipeline.                                                      *)
(*                                                                         *)
(* Texts are sequences of one-character strings, so that the string        *)
(* functions of the source (indexOf, trim, replace, match) are computed    *)
(* character by character.  JSON values are records tagged by field t.     *)
(***************************************************************************)
EXTENDS Integers, Sequences, FiniteSets, TLC

VARIABLES
    run,         \* the run: what is being run, the stage reached, its status and data
    inputData,   \* per execution: the input the step was called with
    pc,          \* per execution: the await the execution is suspended at
    budget,      \* per execution: maxAttempts of its withRetryAndAlerts call
    attemptIndex,\* per execution: the loop variable of withRetryAndAlerts
    inFlight,    \* per execution: attempts started and not yet settled
    lastError,   \* per execution: lastError of withRetryAndAlerts
    attemptLog,  \* per execution: how every attempt settled, in order
    agentCalls,  \* per execution: calls of agent.generate made so far
    held,        \* per execution: the result or the caught error kept across an await
    alerts,      \* per execution: the alerts handed to notifyStepStatus, in order
    delivery,    \* per execution: whether the sink took each of these alerts
    sink,        \* the executions whose alerts the sink may fail to take
    output,      \* per execution: the value returned, once it returned
    raised,      \* per execution: the error thrown, once it threw
    call,        \* a call of a parsing function: the response, the schema, the flag
    outcome,     \* what that call returned or threw
    cliToolMetrics, \* the shared counter of tool invocations (callCount)
    env          \* what the run has done outside the process: container, files, remote

vars == <<run, inputData, pc, budget, attemptIndex, inFlight, lastError, attemptLog,
          agentCalls, held, alerts, delivery, sink, output, raised, call, outcome,
          cliToolMetrics, env>>

-----------------------------------------------------------------------------
(* Characters and strings                                                  *)

WS == {" ", "\n", "\t", "\r"}

Digits == {"0", "1", "2", "3", "4", "5", "6", "7", "8", "9"}

UpperCase == <<"A","B","C","D","E","F","G","H","I","J","K","L","M",
               "N","O","P","Q","R","S","T","U","V","W","X","Y","Z">>

LowerCase == <<"a","b","c","d","e","f","g","h","i","j","k","l","m",
               "n","o","p","q","r","s","t","u","v","w","x","y","z">>

toLowerChar(c) ==
    IF \E i \in 1..Len(UpperCase) : UpperCase[i] = c
    THEN LowerCase[CHOOSE i \in 1..Len(UpperCase) : UpperCase[i] = c]
    ELSE c

toLowerCase(cs) == [i \in 1..Len(cs) |-> toLowerChar(cs[i])]

\* F(x), with x evaluated once before F is applied to it
Once(F(_), x) == CHOOSE r \in {F(v) : v \in {x}} : TRUE

\* the characters of cs joined into one string (halving keeps the recursion shallow)
RECURSIVE Str(_)
Str(cs) ==
    IF cs = <<>> THEN ""
    ELSE IF Len(cs) = 1 THEN cs[1]
    ELSE Once(Str, SubSeq(cs, 1, Len(cs) \div 2))
             \o Once(Str, SubSeq(cs, Len(cs) \div 2 + 1, Len(cs)))

Min(a, b) == IF a < b THEN a ELSE b

\* cs[a..b], empty when a > b
between(cs, a, b) == IF a > b THEN <<>> ELSE SubSeq(cs, a, b)

\* s.substring(from0, to0) with 0-based bounds, as in JavaScript
substring(cs, from0, to0) == between(cs, Min(from0, Len(cs)) + 1, Min(to0, Len(cs)))

RECURSIVE SkipWs(_, _)
SkipWs(cs, p) == IF p <= Len(cs) /\ cs[p] \in WS THEN SkipWs(cs, p + 1) ELSE p

RECURSIVE SkipWsBack(_, _)
SkipWsBack(cs, p) == IF p >= 1 /\ cs[p] \in WS THEN SkipWsBack(cs, p - 1) ELSE p

trim(cs) == between(cs, SkipWs(cs, 1), SkipWsBack(cs, Len(cs)))

\* whether pat occurs in cs at 1-based position p
StartsAt(cs, p, pat) ==
    /\ p >= 1
    /\ p + Len(pat) - 1 <= Len(cs)
    /\ \A i \in 1..Len(pat) : cs[p + i - 1] = pat[i]

\* 1-based position of the first occurrence of pat at or after p, 0 if none
least(hits) == IF hits = {} THEN 0 ELSE CHOOSE i \in hits : \A j \in hits : i <= j

greatest(hits) == IF hits = {} THEN 0 ELSE CHOOSE i \in hits : \A j \in hits : i >= j

IndexFrom(cs, pat, p) == least({i \in p..Len(cs) : StartsAt(cs, i, pat)})

\* 1-based position of the last occurrence of character c, 0 if none
LastIndexOf(cs, c) == greatest({i \in 1..Len(cs) : cs[i] = c})

includes(cs, pat) == IndexFrom(cs, pat, 1) # 0

Count(cs, c) == Cardinality({i \in 1..Len(cs) : cs[i] = c})

Repeat(c, n) == [i \in 1..n |-> c]

-----------------------------------------------------------------------------
(* Extraction: extractJsonFromText                                         *)

\* the grave accent character (U+0060), which a TLA+ string cannot hold
Backtick == "<U+0060>"

Fence == <<Backtick, Backtick, Backtick>>

SetMin(S) == CHOOSE i \in S : \A j \in S : i <= j

NoMatch == [found |-> FALSE, g1 |-> <<>>]

\* a match whose group 1 is text[s..e]
Group(text, s, e) == [found |-> TRUE, g1 |-> IF e >= s THEN SubSeq(text, s, e) ELSE <<>>]

\* the opening fences of text that a closing fence follows
FenceOpens(text) ==
    {i \in 1..Len(text) : StartsAt(text, i, Fence) /\ IndexFrom(text, Fence, i + 3) # 0}

\* where group 1 begins after the fence at i: past (?:json)? and \s*
afterFence(text, i) ==
    SkipWs(text, IF StartsAt(text, i + 3, <<"j", "s", "o", "n">>) THEN i + 7 ELSE i + 3)

\* group 1 from s: lazily up to the whitespace before the next fence
fencedGroup(text, s) == Group(text, s, SkipWsBack(text, IndexFrom(text, Fence, s) - 1))

matchAtFirst(text, opens) ==
    IF opens = {} THEN NoMatch ELSE fencedGroup(text, afterFence(text, SetMin(opens)))

\* group 1 of the first match of /```(?:json)?\s*([\s\S]*?)\s*```/
jsonMarkdownMatch(text) == matchAtFirst(text, FenceOpens(text))

braceSpan(text, a, last) ==
    IF a >= 1 /\ a <= Len(text) /\ text[a] = "{" /\ last > a
    THEN Group(text, a, last) ELSE NoMatch

\* group 1 of (\{[\s\S]*\}) anchored at the '{' at position a: up to the last '}'
BraceGroup(text, a) == braceSpan(text, a, LastIndexOf(text, "}"))

firstOf(text, starts, ok) ==
    IF ok = {} THEN NoMatch ELSE BraceGroup(text, starts[SetMin(ok)])

\* the match at the first position of text where the pattern reaches a brace group
FirstFound(text, starts) ==
    firstOf(text, starts, {i \in 1..Len(text) : BraceGroup(text, starts[i]).found})

PhraseWords == << <<"h","e","r","e","'","s"," ","t","h","e">>,
                  <<"h","e","r","e"," ","i","s"," ","t","h","e">>,
                  <<"t","h","e">>,
                  <<"r","e","s","u","l","t",":">>,
                  <<"o","u","t","p","u","t",":">> >>

\* past [:\-]? and \s*
afterColon(text, p) ==
    SkipWs(text, IF p <= Len(text) /\ text[p] \in {":", "-"} THEN p + 1 ELSE p)

\* past (?:JSON|json)? and \s*, then the colon
afterJson(text, low, p) ==
    afterColon(text, SkipWs(text, IF StartsAt(low, p, <<"j","s","o","n">>) THEN p + 4 ELSE p))

afterPhrase(text, low, i, ws) ==
    IF ws = {} THEN 0
    ELSE afterJson(text, low, SkipWs(text, i + Len(PhraseWords[SetMin(ws)])))

phraseAt(text, low, i) ==
    afterPhrase(text, low, i, {k \in 1..Len(PhraseWords) : StartsAt(low, i, PhraseWords[k])})

\* /(?:Here's the|Here is the|The|Result:|Output:)\s*(?:JSON|json)?\s*[:\-]?\s*(\{[\s\S]*\})/i
\* position of the '{' that the pattern reaches when it starts at i, 0 if it does not match there
PhraseBraceAt(text, i) == phraseAt(text, toLowerCase(text), i)

\* /JSON:\s*(\{[\s\S]*\})/i
JsonColonBraceAt(text, i) ==
    IF StartsAt(toLowerCase(text), i, <<"j","s","o","n",":">>)
    THEN SkipWs(text, i + 5) ELSE 0

fencedBraceAt(text, i, b) ==
    IF StartsAt(text, i, Fence) /\ BraceGroup(text, b).found THEN b ELSE i

\* /(?:```\s*)?(\{[\s\S]*\})(?:\s*```)?/
PlainBraceAt(text, i) == fencedBraceAt(text, i, SkipWs(text, i + 3))

\* the fallback patterns of extractJsonFromText, in order: group 1 of each
patterns(text) ==
    << FirstFound(text, [i \in 1..Len(text) |-> PhraseBraceAt(text, i)]),
       FirstFound(text, [i \in 1..Len(text) |-> PlainBraceAt(text, i)]),
       FirstFound(text, [i \in 1..Len(text) |-> JsonColonBraceAt(text, i)]) >>

\* match[1].trim().length > 10
longEnough(match) == match.found /\ Len(trim(match.g1)) > 10

firstLongEnough(text, pats, hit) ==
    IF hit = {} THEN text ELSE trim(pats[SetMin(hit)].g1)

\* the loop over the fallback patterns
fromPatterns(text, pats) ==
    firstLongEnough(text, pats, {k \in 1..Len(pats) : longEnough(pats[k])})

\* object boundaries taken whenever both braces occur, in whatever order
fromBracesAnyOrder(text, start, end) ==
    IF start # 0 /\ end # 0 THEN between(text, start, end)
    ELSE fromPatterns(text, patterns(text))

\* the object boundaries: from the first '{' to the last '}'
fromBraces(text, start, end) ==
    IF start # 0 /\ end # 0 /\ end > start THEN SubSeq(text, start, end)
    ELSE fromPatterns(text, patterns(text))

\* an extraction that ends the object at the first '}' of the text
fromFenceToFirstClose(text, md) ==
    IF longEnough(md) THEN trim(md.g1)
    ELSE fromBraces(text, IndexFrom(text, <<"{">>, 1), IndexFrom(text, <<"}">>, 1))

\* the code fence first
fromFence(text, md) ==
    IF longEnough(md) THEN trim(md.g1)
    ELSE fromBraces(text, IndexFrom(text, <<"{">>, 1), LastIndexOf(text, "}"))

extractJsonFromText(text) == fromFence(text, jsonMarkdownMatch(text))

-----------------------------------------------------------------------------
(* Recovery: attemptJsonRecovery                                           *)

\* whether the comma at p is followed by optional whitespace and a closing bracket
closesAt(cs, q) == q <= Len(cs) /\ cs[q] \in {"}", "]"}

trailingComma(cs, p) == cs[p] = "," /\ closesAt(cs, SkipWs(cs, p + 1))

\* recovered.replace(/,(\s*[}\]])/g, '$1'), on the characters lo..hi of cs
RECURSIVE removeTrailingCommas(_, _, _)
removeTrailingCommas(cs, lo, hi) ==
    IF lo > hi THEN <<>>
    ELSE IF lo = hi THEN IF trailingComma(cs, lo) THEN <<>> ELSE <<cs[lo]>>
    ELSE removeTrailingCommas(cs, lo, (lo + hi) \div 2)
         \o removeTrailingCommas(cs, (lo + hi) \div 2 + 1, hi)

\* a repair that closes one object only, however many are open
appendOne(recovered, openBraces, closeBraces) ==
    IF openBraces > closeBraces THEN recovered \o <<"}">> ELSE recovered

\* the missing closing braces are appended
appendMissing(recovered, openBraces, closeBraces) ==
    IF openBraces > closeBraces
    THEN recovered \o Repeat("}", openBraces - closeBraces)
    ELSE recovered

balanceBraces(recovered) ==
    appendMissing(recovered, Count(recovered, "{"), Count(recovered, "}"))

attemptJsonRecovery(jsonText) ==
    balanceBraces(removeTrailingCommas(jsonText, 1, Len(jsonText)))

-----------------------------------------------------------------------------
(* JSON values, JSON.parse and thrown values                               *)

JNull == [t |-> "null"]
JUndef == [t |-> "undefined"]
JBool(b) == [t |-> "bool", b |-> b]
JNum(lit) == [t |-> "num", n |-> lit]
JStr(cs) == [t |-> "str", s |-> cs]
JArr(items) == [t |-> "arr", a |-> items]
JObj(kv) == [t |-> "obj", kv |-> kv]

HasKey(o, k) == o.t = "obj" /\ \E i \in 1..Len(o.kv) : o.kv[i].k = k

\* o[k], undefined when o is no object or has no such property
Get(o, k) ==
    IF HasKey(o, k) THEN o.kv[CHOOSE i \in 1..Len(o.kv) : o.kv[i].k = k].v ELSE JUndef

\* o[k] = v on an object: a present key keeps its place, a new one is appended
Put(o, k, v) ==
    IF HasKey(o, k)
    THEN JObj([i \in 1..Len(o.kv) |-> IF o.kv[i].k = k THEN [k |-> k, v |-> v] ELSE o.kv[i]])
    ELSE JObj(Append(o.kv, [k |-> k, v |-> v]))

\* a thrown value: an Error object (isError) or any other value, with its message
Error(name, message) == [isError |-> TRUE, name |-> name, message |-> message]
Thrown(message) == [isError |-> FALSE, name |-> "", message |-> message]
NoError == [isError |-> FALSE, name |-> "none", message |-> ""]

getErrorMessage(error) == error.message

POk(v, p) == [ok |-> TRUE, v |-> v, p |-> p]
PFail(p) == [ok |-> FALSE, v |-> JUndef, p |-> p]

\* the body of a JSON string from position p (after the opening quote); the
\* escapes \" \\ \/ \n \t \r are decoded, any other escape is a syntax error
RECURSIVE parseString(_, _, _)
parseString(cs, p, acc) ==
    IF p > Len(cs) THEN PFail(p)
    ELSE IF cs[p] = "\"" THEN POk(JStr(acc), p + 1)
    ELSE IF cs[p] \in {"\n", "\t", "\r"} THEN PFail(p)
    ELSE IF cs[p] = "\\"
         THEN IF p + 1 > Len(cs) THEN PFail(p + 1)
              ELSE IF cs[p + 1] \in {"\"", "\\", "/"}
                   THEN parseString(cs, p + 2, Append(acc, cs[p + 1]))
              ELSE IF cs[p + 1] = "n" THEN parseString(cs, p + 2, Append(acc, "\n"))
              ELSE IF cs[p + 1] = "t" THEN parseString(cs, p + 2, Append(acc, "\t"))
              ELSE IF cs[p + 1] = "r" THEN parseString(cs, p + 2, Append(acc, "\r"))
              ELSE PFail(p + 1)
    ELSE parseString(cs, p + 1, Append(acc, cs[p]))

RECURSIVE SkipDigits(_, _)
SkipDigits(cs, p) == IF p <= Len(cs) /\ cs[p] \in Digits THEN SkipDigits(cs, p + 1) ELSE p

numEnd(cs, p, e) == POk(JNum(SubSeq(cs, p, e - 1)), e)

numExpEnd(cs, p, d, e) == IF e = d THEN PFail(d) ELSE numEnd(cs, p, e)

\* ([eE][+-]?[0-9]+)?
numExp(cs, p, c) ==
    IF c <= Len(cs) /\ cs[c] \in {"e", "E"}
    THEN IF c + 1 <= Len(cs) /\ cs[c + 1] \in {"+", "-"}
         THEN numExpEnd(cs, p, c + 2, SkipDigits(cs, c + 2))
         ELSE numExpEnd(cs, p, c + 1, SkipDigits(cs, c + 1))
    ELSE numEnd(cs, p, c)

numFracEnd(cs, p, b, c) == IF c = b + 1 THEN PFail(c) ELSE numExp(cs, p, c)

\* (\.[0-9]+)?
numFrac(cs, p, b) ==
    IF b <= Len(cs) /\ cs[b] = "." THEN numFracEnd(cs, p, b, SkipDigits(cs, b + 1))
    ELSE numExp(cs, p, b)

numIntEnd(cs, p, a, b) == IF b = a THEN PFail(a) ELSE numFrac(cs, p, b)

\* (0|[1-9][0-9]*)
numInt(cs, p, a) ==
    numIntEnd(cs, p, a, IF a <= Len(cs) /\ cs[a] = "0" THEN a + 1 ELSE SkipDigits(cs, a))

\* -?(0|[1-9][0-9]*)(\.[0-9]+)?([eE][+-]?[0-9]+)?
parseNumber(cs, p) == numInt(cs, p, IF p <= Len(cs) /\ cs[p] = "-" THEN p + 1 ELSE p)

RECURSIVE parseValue(_, _), parseMembers(_, _, _, _), parseElements(_, _, _, _)

\* after a member: '}' closes the object, ',' asks for another member
memberNext(cs, obj, q) ==
    IF q > Len(cs) THEN PFail(q)
    ELSE IF cs[q] = "}" THEN POk(obj, q + 1)
    ELSE IF cs[q] = "," THEN parseMembers(cs, SkipWs(cs, q + 1), obj, FALSE)
    ELSE PFail(q)

memberValue(cs, obj, key, val) ==
    IF ~val.ok THEN val
    ELSE memberNext(cs, Put(obj, Str(key.v.s), val.v), SkipWs(cs, val.p))

memberColon(cs, obj, key, colon) ==
    IF colon > Len(cs) \/ cs[colon] # ":" THEN PFail(colon)
    ELSE memberValue(cs, obj, key, parseValue(cs, colon + 1))

memberKey(cs, obj, key) ==
    IF ~key.ok THEN key ELSE memberColon(cs, obj, key, SkipWs(cs, key.p))

\* the members of an object from position p (no whitespace at p); first: no
\* member was read yet, so '}' may close the object here
parseMembers(cs, p, obj, first) ==
    IF p > Len(cs) THEN PFail(p)
    ELSE IF first /\ cs[p] = "}" THEN POk(obj, p + 1)
    ELSE IF cs[p] # "\"" THEN PFail(p)
    ELSE memberKey(cs, obj, parseString(cs, p + 1, <<>>))

\* after an element: ']' closes the array, ',' asks for another element
elementNext(cs, items, q) ==
    IF q > Len(cs) THEN PFail(q)
    ELSE IF cs[q] = "]" THEN POk(JArr(items), q + 1)
    ELSE IF cs[q] = "," THEN parseElements(cs, SkipWs(cs, q + 1), items, FALSE)
    ELSE PFail(q)

elementValue(cs, items, val) ==
    IF ~val.ok THEN val ELSE elementNext(cs, Append(items, val.v), SkipWs(cs, val.p))

parseElements(cs, p, items, first) ==
    IF p > Len(cs) THEN PFail(p)
    ELSE IF first /\ cs[p] = "]" THEN POk(JArr(items), p + 1)
    ELSE elementValue(cs, items, parseValue(cs, p))

valueAt(cs, p) ==
    IF p > Len(cs) THEN PFail(p)
    ELSE IF cs[p] = "{" THEN parseMembers(cs, SkipWs(cs, p + 1), JObj(<<>>), TRUE)
    ELSE IF cs[p] = "[" THEN parseElements(cs, SkipWs(cs, p + 1), <<>>, TRUE)
    ELSE IF cs[p] = "\"" THEN parseString(cs, p + 1, <<>>)
    ELSE IF cs[p] \in Digits \cup {"-"} THEN parseNumber(cs, p)
    ELSE IF StartsAt(cs, p, <<"t","r","u","e">>) THEN POk(JBool(TRUE), p + 4)
    ELSE IF StartsAt(cs, p, <<"f","a","l","s","e">>) THEN POk(JBool(FALSE), p + 5)
    ELSE IF StartsAt(cs, p, <<"n","u","l","l">>) THEN POk(JNull, p + 4)
    ELSE PFail(p)

\* a JSON value from position p0, after whitespace
parseValue(cs, p0) == valueAt(cs, SkipWs(cs, p0))

SyntaxError(cs, p) ==
    IF p > Len(cs) THEN Error("SyntaxError", "Unexpected end of JSON input")
    ELSE Error("SyntaxError", "Unexpected token " \o cs[p] \o " in JSON at position "
                              \o ToString(p - 1))

ParseFailed(error) == [ok |-> FALSE, v |-> JUndef, error |-> error]

\* only whitespace may follow the value
afterValue(cs, r, q) ==
    IF q <= Len(cs) THEN ParseFailed(SyntaxError(cs, q))
    ELSE [ok |-> TRUE, v |-> r.v, error |-> NoError]

parsedValue(cs, r) ==
    IF ~r.ok THEN ParseFailed(SyntaxError(cs, r.p)) ELSE afterValue(cs, r, SkipWs(cs, r.p))

\* JSON.parse: [ok |-> TRUE, v] or [ok |-> FALSE, error]
JSONparse(cs) == parsedValue(cs, parseValue(cs, 1))

-----------------------------------------------------------------------------
(* JavaScript conversions used by the normalization helpers                *)

\* whether a number literal denotes zero (its mantissa has no nonzero digit)
IsZero(lit) ==
    LET e == SetMin({i \in 1..Len(lit) : lit[i] \in {"e", "E"}} \cup {Len(lit) + 1})
    IN  \A i \in 1..(e - 1) : lit[i] \notin (Digits \ {"0"})

\* Boolean(v)
Truthy(v) ==
    CASE v.t = "undefined" -> FALSE
      [] v.t = "null" -> FALSE
      [] v.t = "bool" -> v.b
      [] v.t = "num" -> ~IsZero(v.n)
      [] v.t = "str" -> v.s # <<>>
      [] OTHER -> TRUE

RECURSIVE JSString(_), JoinItems(_, _)
\* String(v); a number prints as its literal
JSString(v) ==
    CASE v.t = "str" -> v.s
      [] v.t = "num" -> v.n
      [] v.t = "bool" -> IF v.b THEN <<"t","r","u","e">> ELSE <<"f","a","l","s","e">>
      [] v.t = "null" -> <<"n","u","l","l">>
      [] v.t = "undefined" -> <<"u","n","d","e","f","i","n","e","d">>
      [] v.t = "arr" -> JoinItems(v.a, 1)
      [] OTHER -> <<"[","o","b","j","e","c","t"," ","O","b","j","e","c","t","]">>

JoinItems(a, i) ==
    IF i > Len(a) THEN <<>>
    ELSE (IF a[i].t \in {"null", "undefined"} THEN <<>> ELSE JSString(a[i]))
         \o (IF i < Len(a) THEN <<",">> ELSE <<>>) \o JoinItems(a, i + 1)

\* typeof v === "object" && v (a non-null object or array)
IsObjectLike(v) == v.t \in {"obj", "arr"}

-----------------------------------------------------------------------------
(* Normalization: normalizeAgentJsonForSchemas and its helpers             *)

allowedComments == {"extensive", "moderate", "minimal", "none"}
allowedRepoTypes == {"monorepo", "single-package", "multi-project"}
allowedPackageTypes == {"app", "library", "tool", "config", "unknown"}

S_none == <<"n","o","n","e">>
S_monorepo == <<"m","o","n","o","r","e","p","o">>
S_single_package == <<"s","i","n","g","l","e","-","p","a","c","k","a","g","e">>
S_multi_project == <<"m","u","l","t","i","-","p","r","o","j","e","c","t">>
S_library == <<"l","i","b","r","a","r","y">>
S_app == <<"a","p","p">>
S_tool == <<"t","o","o","l">>
S_config == <<"c","o","n","f","i","g">>
S_unknown == <<"u","n","k","n","o","w","n">>
S_mono == <<"m","o","n","o">>
S_multi == <<"m","u","l","t","i">>
S_lib == <<"l","i","b">>
S_cfg == <<"c","f","g">>
S_dot == <<".">>

\* v === null || v === undefined ? false : Boolean(v)
toBoolean(v) == IF v.t \in {"null", "undefined"} THEN FALSE ELSE Truthy(v)

BoolField(doc, k) == Put(doc, k, JBool(toBoolean(Get(doc, k))))

\* typeof doc.codeComments === "string" ? doc.codeComments.trim().toLowerCase() : undefined
commentsOf(cc) == IF cc.t = "str" THEN toLowerCase(trim(cc.s)) ELSE <<>>

\* commentsVal && allowedComments.has(commentsVal) ? commentsVal : "none"
levelOf(commentsVal) ==
    JStr(IF commentsVal # <<>> /\ Str(commentsVal) \in allowedComments
         THEN commentsVal ELSE S_none)

normalizeDoc(doc) ==
    IF doc.t # "obj" THEN doc
    ELSE Put(BoolField(BoolField(doc, "hasReadme"), "hasApiDocs"), "codeComments",
             levelOf(commentsOf(Get(doc, "codeComments"))))

\* v.replace(/\s+/g, "-")
RECURSIVE hyphenate(_, _)
hyphenate(cs, p) ==
    IF p > Len(cs) THEN <<>>
    ELSE IF cs[p] \in WS THEN <<"-">> \o hyphenate(cs, SkipWs(cs, p))
    ELSE <<cs[p]>> \o hyphenate(cs, p + 1)

repoTypeOf(v) ==
    IF Str(v) \in allowedRepoTypes THEN v
    ELSE IF includes(v, S_mono) THEN S_monorepo
    ELSE IF includes(v, S_multi) THEN S_multi_project
    ELSE S_single_package

\* a classification that looks for "multi" before "mono"
repoTypeMultiFirst(value) ==
    IF value.t # "str" THEN S_single_package
    ELSE Once(LAMBDA v : IF Str(v) \in allowedRepoTypes THEN v
                         ELSE IF includes(v, S_multi) THEN S_multi_project
                         ELSE IF includes(v, S_mono) THEN S_monorepo
                         ELSE S_single_package,
              hyphenate(toLowerCase(trim(value.s)), 1))

normalizeRepoType(value) ==
    IF value.t # "str" THEN S_single_package
    ELSE repoTypeOf(hyphenate(toLowerCase(trim(value.s)), 1))

packageTypeOf(v) ==
    IF Str(v) \in allowedPackageTypes THEN v
    ELSE IF includes(v, S_lib) THEN S_library
    ELSE IF includes(v, S_app) THEN S_app
    ELSE IF includes(v, S_tool) THEN S_tool
    ELSE IF includes(v, S_config) \/ includes(v, S_cfg) THEN S_config
    ELSE S_unknown

\* a normalizer that hands the package type back as the agent wrote it
packageTypeAsWritten(value) == IF value.t # "str" THEN S_unknown ELSE value.s

normalizePackageType(value) ==
    IF value.t # "str" THEN S_unknown ELSE packageTypeOf(toLowerCase(trim(value.s)))

\* typeof v === "string" ? v : (v == null ? null : String(v))
stringOrNull(v) ==
    IF v.t = "str" THEN v
    ELSE IF v.t \in {"null", "undefined"} THEN JNull
    ELSE JStr(JSString(v))

\* typeof path === "string" ? path : String(path || ".")
pathOf(path) ==
    IF path.t = "str" THEN path
    ELSE JStr(IF Truthy(path) THEN JSString(path) ELSE S_dot)

\* the package built with path: String(pkg.path || "."), also for a string path
packageWithDefaultedPath(pkg) ==
    JObj(<< [k |-> "path", v |-> JStr(IF Truthy(Get(pkg, "path"))
                                      THEN JSString(Get(pkg, "path")) ELSE S_dot)],
            [k |-> "name", v |-> stringOrNull(Get(pkg, "name"))],
            [k |-> "type", v |-> JStr(normalizePackageType(Get(pkg, "type")))],
            [k |-> "language", v |-> stringOrNull(Get(pkg, "language"))] >>)

\* the object that packages.map builds for one package
normalizePackage(pkg) ==
    JObj(<< [k |-> "path", v |-> pathOf(Get(pkg, "path"))],
            [k |-> "name", v |-> stringOrNull(Get(pkg, "name"))],
            [k |-> "type", v |-> JStr(normalizePackageType(Get(pkg, "type")))],
            [k |-> "language", v |-> stringOrNull(Get(pkg, "language"))] >>)

\* repo.type = normalizeRepoType(repo.type), when repo.type is not undefined
withType(repo) ==
    IF Get(repo, "type").t # "undefined"
    THEN Put(repo, "type", JStr(normalizeRepoType(Get(repo, "type"))))
    ELSE repo

\* repo.structure.packages mapped; reading a property of a null package throws
\* a TypeError, after repo.type was already rewritten
withPackages(repo, structure, packages) ==
    IF ~Truthy(structure) \/ packages.t # "arr" THEN [v |-> repo, threw |-> FALSE]
    ELSE IF \E i \in 1..Len(packages.a) : packages.a[i].t = "null"
    THEN [v |-> repo, threw |-> TRUE]
    ELSE [v |-> Put(repo, "structure",
                    Put(structure, "packages",
                        JArr([i \in 1..Len(packages.a) |-> normalizePackage(packages.a[i])]))),
          threw |-> FALSE]

\* normalizeRepositoryShape: the repository after the call, and whether the call threw
normalizeRepositoryShape(repo) ==
    IF repo.t # "obj" THEN [v |-> repo, threw |-> FALSE]
    ELSE withPackages(withType(repo), Get(repo, "structure"),
                      Get(Get(repo, "structure"), "packages"))

qualityDoc(holder, cq, doc) ==
    IF Truthy(holder) /\ Truthy(cq) /\ Truthy(doc) /\ holder.t = "obj" /\ cq.t = "obj"
    THEN Put(holder, "codeQuality", Put(cq, "documentation", normalizeDoc(doc)))
    ELSE holder

\* holder.codeQuality.documentation normalized, when all three are truthy
normalizeQualityDoc(holder) ==
    qualityDoc(holder, Get(holder, "codeQuality"),
               Get(Get(holder, "codeQuality"), "documentation"))

\* the RepoContext shape with a nested CodebaseAnalysis
nestedCodebase(data) ==
    IF Truthy(data) /\ Truthy(Get(data, "codebase")) /\ data.t = "obj"
    THEN Put(data, "codebase", normalizeQualityDoc(Get(data, "codebase")))
    ELSE data

\* the direct RepositoryStructure shape
directRepository(data) ==
    IF Truthy(data) /\ Truthy(Get(data, "gitStatus")) /\ Truthy(Get(data, "structure"))
    THEN normalizeRepositoryShape(data)
    ELSE [v |-> data, threw |-> FALSE]

\* the RepoContext shape with a nested RepositoryStructure, unless the catch was entered
nestedRepository(direct) ==
    IF direct.threw THEN direct.v
    ELSE IF Truthy(direct.v) /\ Truthy(Get(direct.v, "repository")) /\ direct.v.t = "obj"
    THEN Put(direct.v, "repository", normalizeRepositoryShape(Get(direct.v, "repository")).v)
    ELSE direct.v

normalizeAgentJsonForSchemas(input) ==
    nestedRepository(directRepository(nestedCodebase(normalizeQualityDoc(input))))

-----------------------------------------------------------------------------
(* Schemas (zod) and schema.parse                                          *)

ZString == [z |-> "string"]
ZNumber == [z |-> "number"]
ZBoolean == [z |-> "boolean"]
ZEnum(vals) == [z |-> "enum", vals |-> vals]
ZNullable(inner) == [z |-> "nullable", inner |-> inner]
ZOptional(inner) == [z |-> "optional", inner |-> inner]
ZDefault(inner, value) == [z |-> "default", inner |-> inner, value |-> value]
ZArray(inner) == [z |-> "array", inner |-> inner]
ZRecord(inner) == [z |-> "record", inner |-> inner]
ZObject(fields) == [z |-> "object", fields |-> fields]
F(k, schema) == [k |-> k, s |-> schema]

ZOk(v) == [ok |-> TRUE, v |-> v, error |-> NoError]
ZFail(path, issue) ==
    [ok |-> FALSE, v |-> JUndef, error |-> Error("ZodError", issue \o " at " \o path)]

RECURSIVE zparse(_, _, _), zparseFields(_, _, _, _, _), zparseItems(_, _, _, _, _)

\* schema.parse(v): the parsed output (unknown keys of an object are stripped,
\* the keys come in the order of the schema) or the ZodError of the first issue
zparse(schema, v, path) ==
    CASE schema.z = "string" ->
            IF v.t = "str" THEN ZOk(v)
            ELSE ZFail(path, IF v.t = "undefined" THEN "Required" ELSE "Expected string")
      [] schema.z = "number" ->
            IF v.t = "num" THEN ZOk(v)
            ELSE ZFail(path, IF v.t = "undefined" THEN "Required" ELSE "Expected number")
      [] schema.z = "boolean" ->
            IF v.t = "bool" THEN ZOk(v)
            ELSE ZFail(path, IF v.t = "undefined" THEN "Required" ELSE "Expected boolean")
      [] schema.z = "enum" ->
            IF v.t = "str" /\ Str(v.s) \in schema.vals THEN ZOk(v)
            ELSE ZFail(path, IF v.t = "undefined" THEN "Required" ELSE "Invalid enum value")
      [] schema.z = "nullable" ->
            IF v.t = "null" THEN ZOk(v) ELSE zparse(schema.inner, v, path)
      [] schema.z = "optional" ->
            IF v.t = "undefined" THEN ZOk(v) ELSE zparse(schema.inner, v, path)
      [] schema.z = "default" ->
            IF v.t = "undefined" THEN ZOk(schema.value) ELSE zparse(schema.inner, v, path)
      [] schema.z = "array" ->
            IF v.t = "arr" THEN zparseItems(schema.inner, v.a, 1, <<>>, path)
            ELSE ZFail(path, IF v.t = "undefined" THEN "Required" ELSE "Expected array")
      [] schema.z = "record" ->
            IF v.t = "obj"
            THEN zparseFields([i \in 1..Len(v.kv) |-> F(v.kv[i].k, schema.inner)],
                              v, 1, <<>>, path)
            ELSE ZFail(path, IF v.t = "undefined" THEN "Required" ELSE "Expected object")
      [] schema.z = "object" ->
            IF v.t = "obj" THEN zparseFields(schema.fields, v, 1, <<>>, path)
            ELSE ZFail(path, IF v.t = "undefined" THEN "Required" ELSE "Expected object")

zparseFields(fields, v, i, acc, path) ==
    IF i > Len(fields) THEN ZOk(JObj(acc))
    ELSE Once(LAMBDA r :
                 IF ~r.ok THEN r
                 ELSE zparseFields(fields, v, i + 1,
                                   IF r.v.t = "undefined" THEN acc
                                   ELSE Append(acc, [k |-> fields[i].k, v |-> r.v]),
                                   path),
              Once(LAMBDA field : zparse(fields[i].s, field, path \o "." \o fields[i].k),
                   Get(v, fields[i].k)))

zparseItems(inner, items, i, acc, path) ==
    IF i > Len(items) THEN ZOk(JArr(acc))
    ELSE Once(LAMBDA r :
                 IF ~r.ok THEN r
                 ELSE zparseItems(inner, items, i + 1, Append(acc, r.v), path),
              Once(LAMBDA item : zparse(inner, item, path \o "[" \o ToString(i - 1) \o "]"),
                   items[i]))

\* whether schema.parse accepts v
Satisfies(schema, v) == zparse(schema, v, "$").ok

GitStatusSchema ==
    ZObject(<< F("isGitRepo", ZBoolean), F("defaultBranch", ZNullable(ZString)),
               F("lastCommit", ZNullable(ZString)), F("hasRemote", ZBoolean),
               F("isDirty", ZBoolean) >>)

PackageTypeSchema == ZEnum({"app", "library", "tool", "config", "unknown"})

PackageInfoSchema ==
    ZObject(<< F("path", ZString), F("name", ZNullable(ZString)),
               F("type", PackageTypeSchema), F("language", ZNullable(ZString)) >>)

RepoStructureSchema ==
    ZObject(<< F("packages", ZArray(PackageInfoSchema)),
               F("keyDirectories", ZArray(ZString)), F("ignoredPaths", ZArray(ZString)) >>)

LanguageStatsSchema ==
    ZObject(<< F("language", ZString), F("percentage", ZNumber),
               F("fileCount", ZNumber), F("mainFiles", ZArray(ZString)) >>)

RepositoryTypeSchema == ZEnum({"monorepo", "single-package", "multi-project"})

RepositoryStructureSchema ==
    ZObject(<< F("type", RepositoryTypeSchema), F("rootPath", ZString),
               F("gitStatus", GitStatusSchema), F("structure", RepoStructureSchema),
               F("languages", ZArray(LanguageStatsSchema)) >>)

ModuleInfoSchema == ZObject(<< F("path", ZString), F("purpose", ZString) >>)

InternalDependencySchema ==
    ZObject(<< F("from", ZString), F("to", ZString), F("type", ZString) >>)

KeyLibrarySchema ==
    ZObject(<< F("name", ZString), F("purpose", ZString), F("version", ZNullable(ZString)) >>)

DependenciesAnalysisSchema ==
    ZObject(<< F("internal", ZArray(InternalDependencySchema)),
               F("external", ZRecord(ZString)), F("keyLibraries", ZArray(KeyLibrarySchema)) >>)

ArchitectureAnalysisSchema ==
    ZObject(<< F("pattern", ZString), F("entryPoints", ZArray(ZString)),
               F("mainModules", ZArray(ModuleInfoSchema)),
               F("dependencies", DependenciesAnalysisSchema) >>)

CodeCommentsLevelSchema == ZEnum({"extensive", "moderate", "minimal", "none"})

DocumentationAnalysisSchema ==
    ZObject(<< F("hasReadme", ZBoolean), F("hasApiDocs", ZBoolean),
               F("codeComments", CodeCommentsLevelSchema) >>)

CodeQualityAnalysisSchema ==
    ZObject(<< F("hasTests", ZBoolean), F("testCoverage", ZNullable(ZString)),
               F("linting", ZArray(ZString)), F("formatting", ZArray(ZString)),
               F("documentation", DocumentationAnalysisSchema) >>)

FrameworkInfoSchema ==
    ZObject(<< F("name", ZString), F("version", ZNullable(ZString)),
               F("purpose", ZString), F("configFiles", ZArray(ZString)) >>)

CodebaseAnalysisSchema ==
    ZObject(<< F("architecture", ArchitectureAnalysisSchema),
               F("codeQuality", CodeQualityAnalysisSchema),
               F("frameworks", ZArray(FrameworkInfoSchema)) >>)

BuildAttemptSchema ==
    ZObject(<< F("command", ZString), F("success", ZBoolean),
               F("output", ZString), F("issues", ZArray(ZString)) >>)

BuildSystemSchema ==
    ZObject(<< F("type", ZNullable(ZString)), F("configFiles", ZArray(ZString)),
               F("buildCommands", ZArray(ZString)),
               F("buildAttempts", ZArray(BuildAttemptSchema)) >>)

PackageManagementSchema ==
    ZObject(<< F("managers", ZArray(ZString)), F("lockFiles", ZArray(ZString)),
               F("workspaceConfig", ZNullable(ZString)) >>)

TestAttemptSchema ==
    ZObject(<< F("command", ZString), F("success", ZBoolean), F("output", ZString) >>)

TestingConfigSchema ==
    ZObject(<< F("frameworks", ZArray(ZString)), F("testDirs", ZArray(ZString)),
               F("testCommands", ZArray(ZString)),
               F("testAttempts", ZArray(TestAttemptSchema)) >>)

EnvironmentConfigSchema ==
    ZObject(<< F("envFiles", ZArray(ZString)), F("requiredVars", ZArray(ZString)) >>)

DeploymentConfigSchema ==
    ZObject(<< F("cicd", ZArray(ZString)), F("dockerfiles", ZArray(ZString)),
               F("deploymentConfigs", ZArray(ZString)),
               F("environmentConfig", EnvironmentConfigSchema) >>)

BuildAndDeploymentSchema ==
    ZObject(<< F("buildSystem", BuildSystemSchema),
               F("packageManagement", PackageManagementSchema),
               F("testing", TestingConfigSchema), F("deployment", DeploymentConfigSchema) >>)

ComplexityLevelSchema == ZEnum({"simple", "moderate", "complex", "very-complex"})

MaturityLevelSchema == ZEnum({"prototype", "development", "production", "mature"})

MaintainabilityLevelSchema == ZEnum({"excellent", "good", "fair", "poor"})

StrengthsWeaknessesSchema ==
    ZObject(<< F("strengths", ZArray(ZString)), F("weaknesses", ZArray(ZString)) >>)

InsightsSchema ==
    ZObject(<< F("complexity", ComplexityLevelSchema), F("maturity", MaturityLevelSchema),
               F("maintainability", MaintainabilityLevelSchema),
               F("recommendations", ZArray(ZString)), F("potentialIssues", ZArray(ZString)),
               F("strengthsWeaknesses", StrengthsWeaknessesSchema) >>)

ConfidenceScoresSchema ==
    ZObject(<< F("repository", ZNumber), F("codebase", ZNumber),
               F("buildDeploy", ZNumber), F("overall", ZNumber) >>)

RepoContextSchema ==
    ZObject(<< F("repository", RepositoryStructureSchema), F("codebase", CodebaseAnalysisSchema),
               F("buildDeploy", BuildAndDeploymentSchema), F("insights", InsightsSchema),
               F("confidence", ConfidenceScoresSchema), F("executiveSummary", ZString) >>)

CoverageMetricSchema ==
    ZObject(<< F("total", ZNumber), F("covered", ZNumber), F("pct", ZNumber) >>)

CoverageStatsSchema ==
    ZObject(<< F("statements", CoverageMetricSchema), F("branches", CoverageMetricSchema),
               F("functions", CoverageMetricSchema), F("lines", CoverageMetricSchema) >>)

CoverageAgentResponseSchema ==
    ZObject(<< F("isValid", ZBoolean), F("repoPath", ZString),
               F("language", ZDefault(ZString, JStr(<<"T","y","p","e","S","c","r","i","p","t">>))),
               F("framework", ZDefault(ZString, JStr(<<"V","i","t","e","s","t">>))),
               F("coverage", ZNumber), F("method", ZString),
               F("stats", ZOptional(CoverageStatsSchema)), F("files", ZNumber),
               F("reason", ZOptional(ZString)) >>)

WorkflowInputSchema ==
    ZObject(<< F("containerId", ZString), F("repoPath", ZOptional(ZString)),
               F("projectId", ZString) >>)

AnalyzeRepositoryOutputSchema ==
    ZObject(<< F("containerId", ZString), F("repository", RepositoryStructureSchema),
               F("projectId", ZString) >>)

AnalyzeCodebaseOutputSchema ==
    ZObject(<< F("containerId", ZString), F("codebase", CodebaseAnalysisSchema),
               F("projectId", ZString) >>)

AnalyzeBuildDeploymentOutputSchema ==
    ZObject(<< F("containerId", ZString), F("buildDeploy", BuildAndDeploymentSchema),
               F("projectId", ZString) >>)

-----------------------------------------------------------------------------
(* The agent-response parsing pipelines                                    *)

Returned(v, tier) == [ok |-> TRUE, v |-> v, error |-> NoError, tier |-> tier]
Threw(error, tier) == [ok |-> FALSE, v |-> JUndef, error |-> error, tier |-> tier]

\* the parsed value is normalized, then validated
normalizedAndValidated(parsed, schema) ==
    IF ~parsed.ok THEN parsed
    ELSE zparse(schema, normalizeAgentJsonForSchemas(parsed.v), "$")

\* JSON.parse, normalizeAgentJsonForSchemas, schema.parse
parseNormalizeValidate(jsonText, schema) ==
    normalizedAndValidated(JSONparse(jsonText), schema)

\* a recovery tier that hands back the repaired value without schema.parse
recoveredUnchecked(jsonText, schema) == JSONparse(attemptJsonRecovery(jsonText))

\* the recovery tier of callContextAgentForAnalysis
contextRecoveryTier(jsonText, schema) ==
    parseNormalizeValidate(attemptJsonRecovery(jsonText), schema)

\* an agent.generate call that settled: it threw, or it returned a text
AgentText(text) == [threw |-> FALSE, error |-> NoError, text |-> text]
AgentThrew(error) == [threw |-> TRUE, error |-> error, text |-> <<>>]

\* the end of the recovery tier: its value, or the error of the first tier
contextRecovered(first, second) ==
    IF second.ok THEN Returned(second.v, "recovery")
    ELSE Threw(Error("Error", "JSON parsing failed: " \o getErrorMessage(first.error)),
               "recovery")

contextTiers(first, jsonText, schema) ==
    IF first.ok THEN Returned(first.v, "first")
    ELSE contextRecovered(first, contextRecoveryTier(jsonText, schema))

\* the two tiers on the extracted text
analyseJson(jsonText, schema) ==
    contextTiers(parseNormalizeValidate(jsonText, schema), jsonText, schema)

\* (resultObj?.text || "{}").toString()
textOf(result) == IF result.text = <<>> THEN <<"{", "}">> ELSE result.text

callContextAgentForAnalysis(result, schema) ==
    IF result.threw THEN Threw(result.error, "agent")
    ELSE analyseJson(extractJsonFromText(textOf(result)), schema)

validatedOnly(parsed, schema) == IF ~parsed.ok THEN parsed ELSE zparse(schema, parsed.v, "$")

\* JSON.parse, schema.parse
parseValidate(jsonText, schema) == validatedOnly(JSONparse(jsonText), schema)

\* the recovery tier of parseAgentJsonResponse
agentRecoveryTier(jsonText, schema) ==
    parseValidate(attemptJsonRecovery(jsonText), schema)

agentRecovered(first, second) ==
    IF second.ok THEN Returned(second.v, "recovery")
    ELSE Threw(Error("Error", "JSON parsing failed after recovery attempt. Original: "
                              \o getErrorMessage(first.error)), "recovery")

agentTiers(first, jsonText, schema, attemptRecovery) ==
    IF first.ok THEN Returned(first.v, "first")
    ELSE IF ~attemptRecovery THEN Threw(first.error, "first")
    ELSE agentRecovered(first, agentRecoveryTier(jsonText, schema))

\* the gate on the extracted text, then the two tiers
gated(text, jsonText, schema, attemptRecovery) ==
    IF Len(jsonText) < 10 \/ jsonText = <<".", ".", ".">> \/ ~includes(jsonText, <<"{">>)
    THEN Threw(Error("Error", "Failed to extract valid JSON from agent response. Preview: "
                              \o Str(substring(text, 0, 500)) \o "..."), "gate")
    ELSE agentTiers(parseValidate(jsonText, schema), jsonText, schema, attemptRecovery)

parseAgentJsonResponse(text, schema, attemptRecovery) ==
    gated(text, extractJsonFromText(text), schema, attemptRecovery)

-----------------------------------------------------------------------------
(* Agent responses: the texts the model lets the agent return              *)

\* a valid repository structure in a json fence, between prose
R_repo_fenced ==
    <<"H","e","r","e"," ","i","s"," ","t","h","e"," ","J","S","O","N",":","\n",Backtick,Backtick,Backtick,"j","s","o","n","\n","{","\"","t","y","p","e","\"",":","\"","m","o","n","o","r","e","p","o","\"",",","\"","r","o","o","t","P","a","t","h","\"",":","\"","/","a","p","p","\"",",","\"","g","i","t","S","t","a","t","u","s","\"",":","{","\"","i","s","G","i","t","R","e","p","o","\"",":","t","r","u","e",",","\"","d","e","f","a","u","l","t","B","r","a","n","c","h","\"",":","\"","m","a","i","n","\"",",","\"","l","a","s","t","C","o","m","m","i","t","\"",":","n","u","l","l",",","\"","h","a","s","R","e","m","o","t","e","\"",":","t","r","u","e",",","\"","i","s","D","i","r","t","y","\"",":","f","a","l","s","e","}",",","\"","s","t","r","u","c","t","u","r","e","\"",":","{","\"","p","a","c","k","a","g","e","s","\"",":","[","{","\"","p","a","t","h","\"",":","\"",".","\"",",","\"","n","a","m","e","\"",":","\"","w","e","b","\"",",","\"","t","y","p","e","\"",":","\"","a","p","p","\"",",","\"","l","a","n","g","u","a","g","e","\"",":","\"","t","s","\"","}","]",",","\"","k","e","y","D","i","r","e","c","t","o","r","i","e","s","\"",":","[","\"","s","r","c","\"","]",",","\"","i","g","n","o","r","e","d","P","a","t","h","s","\"",":","[","]","}",",","\"","l","a","n","g","u","a","g","e","s","\"",":","[","{","\"","l","a","n","g","u","a","g","e","\"",":","\"","t","s","\"",",","\"","p","e","r","c","e","n","t","a","g","e","\"",":","9","0",",","\"","f","i","l","e","C","o","u","n","t","\"",":","2","0",",","\"","m","a","i","n","F","i","l","e","s","\"",":","[","]","}","]","}","\n",Backtick,Backtick,Backtick,"\n","D","o","n","e",".">>

\* a repository structure with enum drift (type ' Mono Repo', package type 'Library', numeric path, an unknown key)
R_repo_drift ==
    <<"R","e","s","u","l","t",":"," ","{","\"","t","y","p","e","\"",":","\""," ","M","o","n","o"," ","R","e","p","o","\"",",","\"","r","o","o","t","P","a","t","h","\"",":","\"","/","a","p","p","\"",",","\"","e","x","t","r","a","\"",":","1",",","\"","g","i","t","S","t","a","t","u","s","\"",":","{","\"","i","s","G","i","t","R","e","p","o","\"",":","t","r","u","e",",","\"","d","e","f","a","u","l","t","B","r","a","n","c","h","\"",":","n","u","l","l",",","\"","l","a","s","t","C","o","m","m","i","t","\"",":","n","u","l","l",",","\"","h","a","s","R","e","m","o","t","e","\"",":","f","a","l","s","e",",","\"","i","s","D","i","r","t","y","\"",":","f","a","l","s","e","}",",","\"","s","t","r","u","c","t","u","r","e","\"",":","{","\"","p","a","c","k","a","g","e","s","\"",":","[","{","\"","p","a","t","h","\"",":","7",",","\"","t","y","p","e","\"",":","\"","L","i","b","r","a","r","y","\"","}","]",",","\"","k","e","y","D","i","r","e","c","t","o","r","i","e","s","\"",":","[","]",",","\"","i","g","n","o","r","e","d","P","a","t","h","s","\"",":","[","]","}",",","\"","l","a","n","g","u","a","g","e","s","\"",":","[","]","}">>

\* a repository structure whose packages hold null
R_repo_nullpkg ==
    <<"{","\"","t","y","p","e","\"",":","\"","M","u","l","t","i","\"",",","\"","r","o","o","t","P","a","t","h","\"",":","\"","/","a","p","p","\"",",","\"","g","i","t","S","t","a","t","u","s","\"",":","{","\"","i","s","G","i","t","R","e","p","o","\"",":","t","r","u","e",",","\"","d","e","f","a","u","l","t","B","r","a","n","c","h","\"",":","n","u","l","l",",","\"","l","a","s","t","C","o","m","m","i","t","\"",":","n","u","l","l",",","\"","h","a","s","R","e","m","o","t","e","\"",":","f","a","l","s","e",",","\"","i","s","D","i","r","t","y","\"",":","f","a","l","s","e","}",",","\"","s","t","r","u","c","t","u","r","e","\"",":","{","\"","p","a","c","k","a","g","e","s","\"",":","[","n","u","l","l","]",",","\"","k","e","y","D","i","r","e","c","t","o","r","i","e","s","\"",":","[","]",",","\"","i","g","n","o","r","e","d","P","a","t","h","s","\"",":","[","]","}",",","\"","l","a","n","g","u","a","g","e","s","\"",":","[","]","}">>

\* a repository structure with trailing commas
R_repo_comma ==
    <<"{","\"","t","y","p","e","\"",":","\"","s","i","n","g","l","e","-","p","a","c","k","a","g","e","\"",",","\"","r","o","o","t","P","a","t","h","\"",":","\"","/","a","p","p","\"",",","\"","g","i","t","S","t","a","t","u","s","\"",":","{","\"","i","s","G","i","t","R","e","p","o","\"",":","f","a","l","s","e",",","\"","d","e","f","a","u","l","t","B","r","a","n","c","h","\"",":","n","u","l","l",",","\"","l","a","s","t","C","o","m","m","i","t","\"",":","n","u","l","l",",","\"","h","a","s","R","e","m","o","t","e","\"",":","f","a","l","s","e",",","\"","i","s","D","i","r","t","y","\"",":","f","a","l","s","e",",","}",",","\"","s","t","r","u","c","t","u","r","e","\"",":","{","\"","p","a","c","k","a","g","e","s","\"",":","[","]",",","\"","k","e","y","D","i","r","e","c","t","o","r","i","e","s","\"",":","[","\"","s","r","c","\"",",","]",",","\"","i","g","n","o","r","e","d","P","a","t","h","s","\"",":","[","]","}",",","\"","l","a","n","g","u","a","g","e","s","\"",":","[","]",",","}">>

\* a repository structure cut off before its last closing brace
R_repo_trunc ==
    <<"{","\"","t","y","p","e","\"",":","\"","m","u","l","t","i","-","p","r","o","j","e","c","t","\"",",","\"","r","o","o","t","P","a","t","h","\"",":","\"","/","a","p","p","\"",",","\"","l","a","n","g","u","a","g","e","s","\"",":","[","]",",","\"","s","t","r","u","c","t","u","r","e","\"",":","{","\"","p","a","c","k","a","g","e","s","\"",":","[","]",",","\"","k","e","y","D","i","r","e","c","t","o","r","i","e","s","\"",":","[","]",",","\"","i","g","n","o","r","e","d","P","a","t","h","s","\"",":","[","]","}",",","\"","g","i","t","S","t","a","t","u","s","\"",":","{","\"","i","s","G","i","t","R","e","p","o","\"",":","f","a","l","s","e",",","\"","d","e","f","a","u","l","t","B","r","a","n","c","h","\"",":","n","u","l","l",",","\"","l","a","s","t","C","o","m","m","i","t","\"",":","n","u","l","l",",","\"","h","a","s","R","e","m","o","t","e","\"",":","f","a","l","s","e",",","\"","i","s","D","i","r","t","y","\"",":","f","a","l","s","e","}">>

\* a valid codebase analysis
R_codebase ==
    <<"{","\"","a","r","c","h","i","t","e","c","t","u","r","e","\"",":","{","\"","p","a","t","t","e","r","n","\"",":","\"","M","V","C","\"",",","\"","e","n","t","r","y","P","o","i","n","t","s","\"",":","[","\"","s","r","c","/","i","n","d","e","x",".","t","s","\"","]",",","\"","m","a","i","n","M","o","d","u","l","e","s","\"",":","[","{","\"","p","a","t","h","\"",":","\"","s","r","c","\"",",","\"","p","u","r","p","o","s","e","\"",":","\"","a","p","p","\"","}","]",",","\"","d","e","p","e","n","d","e","n","c","i","e","s","\"",":","{","\"","i","n","t","e","r","n","a","l","\"",":","[","]",",","\"","e","x","t","e","r","n","a","l","\"",":","{","\"","z","o","d","\"",":","\"","3","\"","}",",","\"","k","e","y","L","i","b","r","a","r","i","e","s","\"",":","[","{","\"","n","a","m","e","\"",":","\"","z","o","d","\"",",","\"","p","u","r","p","o","s","e","\"",":","\"","s","c","h","e","m","a","s","\"",",","\"","v","e","r","s","i","o","n","\"",":","n","u","l","l","}","]","}","}",",","\"","c","o","d","e","Q","u","a","l","i","t","y","\"",":","{","\"","h","a","s","T","e","s","t","s","\"",":","t","r","u","e",",","\"","t","e","s","t","C","o","v","e","r","a","g","e","\"",":","n","u","l","l",",","\"","l","i","n","t","i","n","g","\"",":","[","]",",","\"","f","o","r","m","a","t","t","i","n","g","\"",":","[","]",",","\"","d","o","c","u","m","e","n","t","a","t","i","o","n","\"",":","{","\"","h","a","s","R","e","a","d","m","e","\"",":","t","r","u","e",",","\"","h","a","s","A","p","i","D","o","c","s","\"",":","f","a","l","s","e",",","\"","c","o","d","e","C","o","m","m","e","n","t","s","\"",":","\"","m","i","n","i","m","a","l","\"","}","}",",","\"","f","r","a","m","e","w","o","r","k","s","\"",":","[","]","}">>

\* a codebase analysis with documentation drift (null, 1, ' Extensive'), in a plain fence
R_codebase_drift ==
    <<Backtick,Backtick,Backtick,"\n","{","\"","a","r","c","h","i","t","e","c","t","u","r","e","\"",":","{","\"","p","a","t","t","e","r","n","\"",":","\"","M","V","C","\"",",","\"","e","n","t","r","y","P","o","i","n","t","s","\"",":","[","]",",","\"","m","a","i","n","M","o","d","u","l","e","s","\"",":","[","]",",","\"","d","e","p","e","n","d","e","n","c","i","e","s","\"",":","{","\"","i","n","t","e","r","n","a","l","\"",":","[","]",",","\"","e","x","t","e","r","n","a","l","\"",":","{","}",",","\"","k","e","y","L","i","b","r","a","r","i","e","s","\"",":","[","]","}","}",",","\"","c","o","d","e","Q","u","a","l","i","t","y","\"",":","{","\"","h","a","s","T","e","s","t","s","\"",":","f","a","l","s","e",",","\"","t","e","s","t","C","o","v","e","r","a","g","e","\"",":","n","u","l","l",",","\"","l","i","n","t","i","n","g","\"",":","[","]",",","\"","f","o","r","m","a","t","t","i","n","g","\"",":","[","]",",","\"","d","o","c","u","m","e","n","t","a","t","i","o","n","\"",":","{","\"","h","a","s","R","e","a","d","m","e","\"",":","n","u","l","l",",","\"","h","a","s","A","p","i","D","o","c","s","\"",":","1",",","\"","c","o","d","e","C","o","m","m","e","n","t","s","\"",":","\""," ","E","x","t","e","n","s","i","v","e","\"","}","}",",","\"","f","r","a","m","e","w","o","r","k","s","\"",":","[","]","}",Backtick,Backtick,Backtick>>

\* a valid build and deployment analysis after a phrase
R_build ==
    <<"T","h","e"," ","J","S","O","N"," ","-"," ","{","\"","b","u","i","l","d","S","y","s","t","e","m","\"",":","{","\"","t","y","p","e","\"",":","n","u","l","l",",","\"","c","o","n","f","i","g","F","i","l","e","s","\"",":","[","]",",","\"","b","u","i","l","d","C","o","m","m","a","n","d","s","\"",":","[","\"","n","p","m"," ","r","u","n"," ","b","u","i","l","d","\"","]",",","\"","b","u","i","l","d","A","t","t","e","m","p","t","s","\"",":","[","]","}",",","\"","p","a","c","k","a","g","e","M","a","n","a","g","e","m","e","n","t","\"",":","{","\"","m","a","n","a","g","e","r","s","\"",":","[","\"","n","p","m","\"","]",",","\"","l","o","c","k","F","i","l","e","s","\"",":","[","]",",","\"","w","o","r","k","s","p","a","c","e","C","o","n","f","i","g","\"",":","n","u","l","l","}",",","\"","t","e","s","t","i","n","g","\"",":","{","\"","f","r","a","m","e","w","o","r","k","s","\"",":","[","\"","v","i","t","e","s","t","\"","]",",","\"","t","e","s","t","D","i","r","s","\"",":","[","]",",","\"","t","e","s","t","C","o","m","m","a","n","d","s","\"",":","[","]",",","\"","t","e","s","t","A","t","t","e","m","p","t","s","\"",":","[","{","\"","c","o","m","m","a","n","d","\"",":","\"","n","p","m"," ","t","e","s","t","\"",",","\"","s","u","c","c","e","s","s","\"",":","t","r","u","e",",","\"","o","u","t","p","u","t","\"",":","\"","o","k","\"","}","]","}",",","\"","d","e","p","l","o","y","m","e","n","t","\"",":","{","\"","c","i","c","d","\"",":","[","]",",","\"","d","o","c","k","e","r","f","i","l","e","s","\"",":","[","]",",","\"","d","e","p","l","o","y","m","e","n","t","C","o","n","f","i","g","s","\"",":","[","]",",","\"","e","n","v","i","r","o","n","m","e","n","t","C","o","n","f","i","g","\"",":","{","\"","e","n","v","F","i","l","e","s","\"",":","[","]",",","\"","r","e","q","u","i","r","e","d","V","a","r","s","\"",":","[","]","}","}","}"," ","(","e","n","d",")">>

\* the enum-drift example without gitStatus
R_mono ==
    <<"{","\"","t","y","p","e","\"",":","\"","M","o","n","o","\"",","," ","\"","s","t","r","u","c","t","u","r","e","\"",":","{","\"","p","a","c","k","a","g","e","s","\"",":","[","{","\"","t","y","p","e","\"",":","\"","L","i","b","r","a","r","y","\"","}","]","}","}">>

\* an object no schema accepts
R_other ==
    <<"{","\"","t","y","p","e","\"",":","\"","o","t","h","e","r","\"","}">>

\* an object no schema accepts, with a trailing comma
R_other_comma ==
    <<"{","\"","t","y","p","e","\"",":","\"","o","t","h","e","r","\"",",","}">>

\* prose only
R_prose ==
    <<"n","o"," ","j","s","o","n"," ","h","e","r","e">>

\* the placeholder
R_dots ==
    <<".",".",".">>

\* an object shorter than 10 characters
R_short ==
    <<"{","\"","a","\"",":","1","}">>

\* an empty text
R_empty ==
    <<>>

\* an object that is never closed
R_open ==
    <<"J","S","O","N",":"," ","{","\"","t","y","p","e","\"",":","\"","m","o","n","o","r","e","p","o","\"">>

\* a valid repository context, in a json fence
R_context ==
    <<Backtick,Backtick,Backtick,"j","s","o","n","\n","{","\"","r","e","p","o","s","i","t","o","r","y","\"",":","{","\"","t","y","p","e","\"",":","\"","s","i","n","g","l","e","-","p","a","c","k","a","g","e","\"",",","\"","r","o","o","t","P","a","t","h","\"",":","\"","/","a","p","p","\"",",","\"","g","i","t","S","t","a","t","u","s","\"",":","{","\"","i","s","G","i","t","R","e","p","o","\"",":","t","r","u","e",",","\"","d","e","f","a","u","l","t","B","r","a","n","c","h","\"",":","\"","m","a","i","n","\"",",","\"","l","a","s","t","C","o","m","m","i","t","\"",":","n","u","l","l",",","\"","h","a","s","R","e","m","o","t","e","\"",":","t","r","u","e",",","\"","i","s","D","i","r","t","y","\"",":","f","a","l","s","e","}",",","\"","s","t","r","u","c","t","u","r","e","\"",":","{","\"","p","a","c","k","a","g","e","s","\"",":","[","]",",","\"","k","e","y","D","i","r","e","c","t","o","r","i","e","s","\"",":","[","\"","s","r","c","\"","]",",","\"","i","g","n","o","r","e","d","P","a","t","h","s","\"",":","[","]","}",",","\"","l","a","n","g","u","a","g","e","s","\"",":","[","]","}",",","\"","c","o","d","e","b","a","s","e","\"",":","{","\"","a","r","c","h","i","t","e","c","t","u","r","e","\"",":","{","\"","p","a","t","t","e","r","n","\"",":","\"","M","V","C","\"",",","\"","e","n","t","r","y","P","o","i","n","t","s","\"",":","[","]",",","\"","m","a","i","n","M","o","d","u","l","e","s","\"",":","[","]",",","\"","d","e","p","e","n","d","e","n","c","i","e","s","\"",":","{","\"","i","n","t","e","r","n","a","l","\"",":","[","]",",","\"","e","x","t","e","r","n","a","l","\"",":","{","}",",","\"","k","e","y","L","i","b","r","a","r","i","e","s","\"",":","[","]","}","}",",","\"","c","o","d","e","Q","u","a","l","i","t","y","\"",":","{","\"","h","a","s","T","e","s","t","s","\"",":","t","r","u","e",",","\"","t","e","s","t","C","o","v","e","r","a","g","e","\"",":","n","u","l","l",",","\"","l","i","n","t","i","n","g","\"",":","[","]",",","\"","f","o","r","m","a","t","t","i","n","g","\"",":","[","]",",","\"","d","o","c","u","m","e","n","t","a","t","i","o","n","\"",":","{","\"","h","a","s","R","e","a","d","m","e","\"",":","t","r","u","e",",","\"","h","a","s","A","p","i","D","o","c","s","\"",":","f","a","l","s","e",",","\"","c","o","d","e","C","o","m","m","e","n","t","s","\"",":","\"","m","i","n","i","m","a","l","\"","}","}",",","\"","f","r","a","m","e","w","o","r","k","s","\"",":","[","]","}",",","\"","b","u","i","l","d","D","e","p","l","o","y","\"",":","{","\"","b","u","i","l","d","S","y","s","t","e","m","\"",":","{","\"","t","y","p","e","\"",":","\"","n","p","m","\"",",","\"","c","o","n","f","i","g","F","i","l","e","s","\"",":","[","]",",","\"","b","u","i","l","d","C","o","m","m","a","n","d","s","\"",":","[","]",",","\"","b","u","i","l","d","A","t","t","e","m","p","t","s","\"",":","[","]","}",",","\"","p","a","c","k","a","g","e","M","a","n","a","g","e","m","e","n","t","\"",":","{","\"","m","a","n","a","g","e","r","s","\"",":","[","\"","n","p","m","\"","]",",","\"","l","o","c","k","F","i","l","e","s","\"",":","[","]",",","\"","w","o","r","k","s","p","a","c","e","C","o","n","f","i","g","\"",":","n","u","l","l","}",",","\"","t","e","s","t","i","n","g","\"",":","{","\"","f","r","a","m","e","w","o","r","k","s","\"",":","[","]",",","\"","t","e","s","t","D","i","r","s","\"",":","[","]",",","\"","t","e","s","t","C","o","m","m","a","n","d","s","\"",":","[","]",",","\"","t","e","s","t","A","t","t","e","m","p","t","s","\"",":","[","]","}",",","\"","d","e","p","l","o","y","m","e","n","t","\"",":","{","\"","c","i","c","d","\"",":","[","]",",","\"","d","o","c","k","e","r","f","i","l","e","s","\"",":","[","]",",","\"","d","e","p","l","o","y","m","e","n","t","C","o","n","f","i","g","s","\"",":","[","]",",","\"","e","n","v","i","r","o","n","m","e","n","t","C","o","n","f","i","g","\"",":","{","\"","e","n","v","F","i","l","e","s","\"",":","[","]",",","\"","r","e","q","u","i","r","e","d","V","a","r","s","\"",":","[","]","}","}","}",",","\"","i","n","s","i","g","h","t","s","\"",":","{","\"","c","o","m","p","l","e","x","i","t","y","\"",":","\"","s","i","m","p","l","e","\"",",","\"","m","a","t","u","r","i","t","y","\"",":","\"","p","r","o","d","u","c","t","i","o","n","\"",",","\"","m","a","i","n","t","a","i","n","a","b","i","l","i","t","y","\"",":","\"","g","o","o","d","\"",",","\"","r","e","c","o","m","m","e","n","d","a","t","i","o","n","s","\"",":","[","\"","a","d","d"," ","t","e","s","t","s","\"","]",",","\"","p","o","t","e","n","t","i","a","l","I","s","s","u","e","s","\"",":","[","]",",","\"","s","t","r","e","n","g","t","h","s","W","e","a","k","n","e","s","s","e","s","\"",":","{","\"","s","t","r","e","n","g","t","h","s","\"",":","[","]",",","\"","w","e","a","k","n","e","s","s","e","s","\"",":","[","]","}","}",",","\"","c","o","n","f","i","d","e","n","c","e","\"",":","{","\"","r","e","p","o","s","i","t","o","r","y","\"",":","0",".","9",",","\"","c","o","d","e","b","a","s","e","\"",":","0",".","8",",","\"","b","u","i","l","d","D","e","p","l","o","y","\"",":","0",".","7",",","\"","o","v","e","r","a","l","l","\"",":","0",".","8","}",",","\"","e","x","e","c","u","t","i","v","e","S","u","m","m","a","r","y","\"",":","\"","A"," ","s","m","a","l","l"," ","s","e","r","v","i","c","e",".","\"","}","\n",Backtick,Backtick,Backtick>>

\* a valid coverage report with stats
R_coverage ==
    <<"{","\"","i","s","V","a","l","i","d","\"",":","t","r","u","e",",","\"","r","e","p","o","P","a","t","h","\"",":","\"","/","a","p","p","/","r","e","p","o","\"",",","\"","l","a","n","g","u","a","g","e","\"",":","\"","T","y","p","e","S","c","r","i","p","t","\"",",","\"","f","r","a","m","e","w","o","r","k","\"",":","\"","V","i","t","e","s","t","\"",",","\"","c","o","v","e","r","a","g","e","\"",":","0",".","5",",","\"","m","e","t","h","o","d","\"",":","\"","a","l","g","o","r","i","t","h","m","i","c","\"",",","\"","s","t","a","t","s","\"",":","{","\"","s","t","a","t","e","m","e","n","t","s","\"",":","{","\"","t","o","t","a","l","\"",":","1","0",",","\"","c","o","v","e","r","e","d","\"",":","5",",","\"","p","c","t","\"",":","5","0","}",",","\"","b","r","a","n","c","h","e","s","\"",":","{","\"","t","o","t","a","l","\"",":","1","0",",","\"","c","o","v","e","r","e","d","\"",":","5",",","\"","p","c","t","\"",":","5","0","}",",","\"","f","u","n","c","t","i","o","n","s","\"",":","{","\"","t","o","t","a","l","\"",":","1","0",",","\"","c","o","v","e","r","e","d","\"",":","5",",","\"","p","c","t","\"",":","5","0","}",",","\"","l","i","n","e","s","\"",":","{","\"","t","o","t","a","l","\"",":","1","0",",","\"","c","o","v","e","r","e","d","\"",":","5",",","\"","p","c","t","\"",":","5","0","}","}",",","\"","f","i","l","e","s","\"",":","4","}">>

\* a valid coverage report without stats, language and framework
R_coverage_nostats ==
    <<"C","o","v","e","r","a","g","e",":"," ","{","\"","i","s","V","a","l","i","d","\"",":","t","r","u","e",",","\"","r","e","p","o","P","a","t","h","\"",":","\"","/","a","p","p","/","r","e","p","o","\"",",","\"","c","o","v","e","r","a","g","e","\"",":","0",".","5",",","\"","m","e","t","h","o","d","\"",":","\"","a","l","g","o","r","i","t","h","m","i","c","\"",",","\"","f","i","l","e","s","\"",":","4","}">>

\* a coverage report for a project that is not valid
R_coverage_invalid ==
    <<"{","\"","i","s","V","a","l","i","d","\"",":","f","a","l","s","e",",","\"","r","e","p","o","P","a","t","h","\"",":","\"","/","a","p","p","/","r","e","p","o","\"",",","\"","c","o","v","e","r","a","g","e","\"",":","0",",","\"","m","e","t","h","o","d","\"",":","\"","a","l","g","o","r","i","t","h","m","i","c","\"",",","\"","f","i","l","e","s","\"",":","0",",","\"","r","e","a","s","o","n","\"",":","\"","n","o"," ","v","i","t","e","s","t","\"","}">>

ResponseText ==
    [repo_fenced |-> R_repo_fenced,
     repo_drift |-> R_repo_drift,
     repo_nullpkg |-> R_repo_nullpkg,
     repo_comma |-> R_repo_comma,
     repo_trunc |-> R_repo_trunc,
     codebase |-> R_codebase,
     codebase_drift |-> R_codebase_drift,
     build |-> R_build,
     mono |-> R_mono,
     other |-> R_other,
     other_comma |-> R_other_comma,
     prose |-> R_prose,
     dots |-> R_dots,
     short |-> R_short,
     empty |-> R_empty,
     open |-> R_open,
     context |-> R_context,
     coverage |-> R_coverage,
     coverage_nostats |-> R_coverage_nostats,
     coverage_invalid |-> R_coverage_invalid]

ResponseIds == DOMAIN ResponseText

SchemaOf ==
    [repository |-> RepositoryStructureSchema,
     codebase |-> CodebaseAnalysisSchema,
     buildDeploy |-> BuildAndDeploymentSchema,
     context |-> RepoContextSchema]

SchemaIds == DOMAIN SchemaOf

\* agent.generate rejecting
AgentFailure == Error("Error", "agent call failed")

\* what agent.generate may settle with: a response text, or the rejection
AgentResult(r) ==
    IF r = "agent_failure" THEN AgentThrew(AgentFailure) ELSE AgentText(ResponseText[r])

\* callContextAgentForAnalysis on every agent result of the model, per schema
ContextAnalysis ==
    [k \in SchemaIds |->
        [r \in ResponseIds \cup {"agent_failure"} |->
            callContextAgentForAnalysis(AgentResult(r), SchemaOf[k])]]

-----------------------------------------------------------------------------
(* The notification sink                                                   *)

\* an alert as handed to notifyStepStatus (level "" and attempt 0 when absent)
Alert(stepId, status, title, subtitle, level, attemptNo, maxAttempts) ==
    [stepId |-> stepId, status |-> status, title |-> title, subtitle |-> subtitle,
     level |-> level, attempt |-> attemptNo, maxAttempts |-> maxAttempts]

\* a notifier that surfaces a failed delivery to its caller
notifySurfacing(alert, taken) ==
    [rejected |-> ~taken, delivered |-> taken,
     error |-> IF taken THEN NoError ELSE Error("Error", "alert delivery failed")]

\* notifyStepStatus: the alert is posted to the sink; a failed delivery is
\* swallowed, so the promise the caller awaits always resolves
notifyStepStatus(alert, taken) ==
    [rejected |-> FALSE, delivered |-> taken, error |-> NoError]

-----------------------------------------------------------------------------
(* Step executions                                                         *)

AnalysisSteps == {"analyzeRepositoryStep", "analyzeCodebaseStep", "analyzeBuildDeploymentStep"}

\* the steps whose execution is followed from await to await
FineSteps == {"contextGatheringStartStep"} \cup AnalysisSteps

\* the steps whose execution is taken in one piece
CoarseSteps ==
    {"dockerSetupStep", "githubCloneStep", "postProjectDescriptionStep",
     "postProjectStackStep", "dockerSaveContextStep", "synthesizeContextStep",
     "saveContextStep", "checkSavedPlanStep", "loadContextAndPlanStep",
     "generateTestCodeStep", "finalizeStep", "prepareCommitAndPushStep",
     "createPullRequestStep", "postPrUrlStep", "runCoverageStep", "postCoverageStep",
     "fullPipelineOutputNormalizer"}

\* the steps of a parallel phase taken on its own, and the step after it
PhaseSteps == {"memberA", "memberB", "memberC", "afterJoin"}

\* the executions of the model: a direct call of withRetryAndAlerts and the steps
Executions == {"directCall"} \cup FineSteps \cup CoarseSteps \cup PhaseSteps

\* maxAttempts of the analysis steps
StepMaxAttempts == 3

\* maxAttempts = 3 in the destructuring of the options
DefaultMaxAttempts == 3

\* the schema each analysis step hands to callContextAgentForAnalysis
AnalysisSchema ==
    [analyzeRepositoryStep |-> "repository",
     analyzeCodebaseStep |-> "codebase",
     analyzeBuildDeploymentStep |-> "buildDeploy"]

\* the key under which each analysis step returns its result
ResultKey == AnalysisSchema

OutputSchema ==
    [analyzeRepositoryStep |-> AnalyzeRepositoryOutputSchema,
     analyzeCodebaseStep |-> AnalyzeCodebaseOutputSchema,
     analyzeBuildDeploymentStep |-> AnalyzeBuildDeploymentOutputSchema,
     contextGatheringStartStep |-> WorkflowInputSchema]

StartingTitle ==
    [analyzeRepositoryStep |-> "Analyze repository",
     analyzeCodebaseStep |-> "Analyze codebase",
     analyzeBuildDeploymentStep |-> "Analyze build & deployment",
     contextGatheringStartStep |-> "Gather workflow start"]

StartingSubtitle ==
    [analyzeRepositoryStep |-> "Quick repository scan starting",
     analyzeCodebaseStep |-> "Focused codebase scan starting",
     analyzeBuildDeploymentStep |-> "DevOps scan starting",
     contextGatheringStartStep |-> "Planning and setup"]

titleOnRetry ==
    [analyzeRepositoryStep |-> "Analyze repository retry",
     analyzeCodebaseStep |-> "Analyze codebase retry",
     analyzeBuildDeploymentStep |-> "Analyze build & deployment retry",
     directCall |-> "Retrying after error"]

\* the subtitle of the completed alert, computed from the result
completedSubtitle(e, result) ==
    CASE e = "analyzeRepositoryStep" -> "Type: " \o Str(JSString(Get(result, "type")))
      [] e = "analyzeCodebaseStep" ->
            "Frameworks: " \o ToString(Len(Get(result, "frameworks").a))
      [] e = "analyzeBuildDeploymentStep" ->
            "Build system: " \o (IF Truthy(Get(Get(result, "buildSystem"), "type"))
                                 THEN Str(JSString(Get(Get(result, "buildSystem"), "type")))
                                 ELSE "unknown")
      [] OTHER -> "Plan logged"

completedAlert(e, result) ==
    Alert(e, "completed",
          IF e = "contextGatheringStartStep" THEN "Gather workflow initialized"
          ELSE StartingTitle[e] \o " completed",
          completedSubtitle(e, result), "", 0, 0)

\* a catch block that reports the exhausted step as completed
failedAlertAsCompleted(e, error) ==
    Alert(e, "completed", StartingTitle[e] \o " completed", getErrorMessage(error), "", 0, 0)

failedAlert(e, error) ==
    Alert(e, "failed", StartingTitle[e] \o " failed", getErrorMessage(error), "error", 0, 0)

startingAlert(e) == Alert(e, "starting", StartingTitle[e], StartingSubtitle[e], "", 0, 0)

\* a retry alert that carries no level
retryAlertUnlevelled(e, error, index, maxAttempts) ==
    Alert(e, "in_progress", titleOnRetry[e], getErrorMessage(error), "", index, maxAttempts)

\* the alert of withRetryAndAlerts after a failed attempt that is not the last
retryAlert(e, error, index, maxAttempts) ==
    Alert(e, "in_progress", titleOnRetry[e], getErrorMessage(error), "warning",
          index, maxAttempts)

\* the minimal structures the analysis steps fall back to
FallbackRepository ==
    JObj(<<
        [k |-> "type", v |-> JStr(<<"s","i","n","g","l","e","-","p","a","c","k","a","g","e">>)],
        [k |-> "rootPath", v |-> JStr(<<"/","a","p","p">>)],
        [k |-> "gitStatus", v |-> JObj(<<
            [k |-> "isGitRepo", v |-> JBool(FALSE)],
            [k |-> "defaultBranch", v |-> JNull],
            [k |-> "lastCommit", v |-> JNull],
            [k |-> "hasRemote", v |-> JBool(FALSE)],
            [k |-> "isDirty", v |-> JBool(FALSE)] >>)],
        [k |-> "structure", v |-> JObj(<<
            [k |-> "packages", v |-> JArr(<<>>)],
            [k |-> "keyDirectories", v |-> JArr(<<>>)],
            [k |-> "ignoredPaths", v |-> JArr(<< JStr(<<"n","o","d","e","_","m","o","d","u","l","e","s">>),
                     JStr(<<".","g","i","t">>),
                     JStr(<<"b","u","i","l","d">>),
                     JStr(<<"d","i","s","t">>),
                     JStr(<<".","n","e","x","t">>),
                     JStr(<<".","v","e","n","v">>),
                     JStr(<<"t","a","r","g","e","t">>) >>)] >>)],
        [k |-> "languages", v |-> JArr(<<>>)] >>)

FallbackCodebase ==
    JObj(<<
        [k |-> "architecture", v |-> JObj(<<
            [k |-> "pattern", v |-> JStr(<<"u","n","k","n","o","w","n">>)],
            [k |-> "entryPoints", v |-> JArr(<<>>)],
            [k |-> "mainModules", v |-> JArr(<<>>)],
            [k |-> "dependencies", v |-> JObj(<<
                [k |-> "internal", v |-> JArr(<<>>)],
                [k |-> "external", v |-> JObj(<<>>)],
                [k |-> "keyLibraries", v |-> JArr(<<>>)] >>)] >>)],
        [k |-> "codeQuality", v |-> JObj(<<
            [k |-> "hasTests", v |-> JBool(FALSE)],
            [k |-> "testCoverage", v |-> JNull],
            [k |-> "linting", v |-> JArr(<<>>)],
            [k |-> "formatting", v |-> JArr(<<>>)],
            [k |-> "documentation", v |-> JObj(<<
                [k |-> "hasReadme", v |-> JBool(FALSE)],
                [k |-> "hasApiDocs", v |-> JBool(FALSE)],
                [k |-> "codeComments", v |-> JStr(<<"n","o","n","e">>)] >>)] >>)],
        [k |-> "frameworks", v |-> JArr(<<>>)] >>)

FallbackBuildDeploy ==
    JObj(<<
        [k |-> "buildSystem", v |-> JObj(<<
            [k |-> "type", v |-> JStr(<<"u","n","k","n","o","w","n">>)],
            [k |-> "configFiles", v |-> JArr(<<>>)],
            [k |-> "buildCommands", v |-> JArr(<<>>)],
            [k |-> "buildAttempts", v |-> JArr(<<>>)] >>)],
        [k |-> "packageManagement", v |-> JObj(<<
            [k |-> "managers", v |-> JArr(<<>>)],
            [k |-> "lockFiles", v |-> JArr(<<>>)],
            [k |-> "workspaceConfig", v |-> JNull] >>)],
        [k |-> "testing", v |-> JObj(<<
            [k |-> "frameworks", v |-> JArr(<<>>)],
            [k |-> "testDirs", v |-> JArr(<<>>)],
            [k |-> "testCommands", v |-> JArr(<<>>)],
            [k |-> "testAttempts", v |-> JArr(<<>>)] >>)],
        [k |-> "deployment", v |-> JObj(<<
            [k |-> "cicd", v |-> JArr(<<>>)],
            [k |-> "dockerfiles", v |-> JArr(<<>>)],
            [k |-> "deploymentConfigs", v |-> JArr(<<>>)],
            [k |-> "environmentConfig", v |-> JObj(<<
                [k |-> "envFiles", v |-> JArr(<<>>)],
                [k |-> "requiredVars", v |-> JArr(<<>>)] >>)] >>)] >>)

Fallback ==
    [analyzeRepositoryStep |-> FallbackRepository,
     analyzeCodebaseStep |-> FallbackCodebase,
     analyzeBuildDeploymentStep |-> FallbackBuildDeploy]

\* an output that carries the result alone
resultOnly(e, in, result) == JObj(<< [k |-> ResultKey[e], v |-> result] >>)

\* { containerId, <key>: result, projectId: inputData.projectId }, undefined
\* properties left out as a serialized step output has them
stepOutput(e, in, result) ==
    LET withId == JObj(<< [k |-> "containerId", v |-> Get(in, "containerId")],
                          [k |-> ResultKey[e], v |-> result] >>)
    IN  IF Get(in, "projectId") = JUndef THEN withId
        ELSE Put(withId, "projectId", Get(in, "projectId"))

-----------------------------------------------------------------------------
(* withRetryAndAlerts and the steps built on it                            *)

\* error instanceof Error ? error : new Error(getErrorMessage(error))
asError(error) == IF error.isError THEN error ELSE Error("Error", getErrorMessage(error))

\* the value undefined when it is thrown or printed as an error
Undefined == Thrown("undefined")

\* no value yet: the execution has not returned
Pending == [t |-> "pending"]

NoResult == [ok |-> FALSE, v |-> JUndef, error |-> NoError, tier |-> "none"]

\* largest maxAttempts a direct call of withRetryAndAlerts is given
MaxBudget == 3

\* how often the world may answer a run of a workflow otherwise than nominally
MaxFaults == 3

\* how the attempt of a direct call may settle: two values, two Errors, a thrown string
DirectOutcomes ==
    {Returned(JStr(<<"v", "1">>), "attempt"), Returned(JStr(<<"v", "2">>), "attempt"),
     Threw(Error("Error", "e1"), "attempt"), Threw(Error("TypeError", "e2"), "attempt"),
     Threw(Thrown("s3"), "attempt")}

\* the responses the agent gives each analysis step when the step is run alone
StepResponses ==
    [analyzeRepositoryStep |-> {"repo_fenced", "repo_comma", "other"},
     analyzeCodebaseStep |-> {"codebase", "codebase_drift", "prose"},
     analyzeBuildDeploymentStep |-> {"build", "empty", "open"}]

\* the responses the agent gives each analysis step within a run of the pipeline
PipelineResponses ==
    [analyzeRepositoryStep |-> {"repo_fenced", "other"},
     analyzeCodebaseStep |-> {"codebase", "prose"},
     analyzeBuildDeploymentStep |-> {"build", "empty"}]

\* whether the run is the run of a workflow
Composed == run.kind \in {"pipeline", "phase"}

\* the agent results of an analysis step, by the kind of run
Responses(e) ==
    IF run.kind = "step" THEN StepResponses[e] \cup {"agent_failure"}
    ELSE PipelineResponses[e]

\* the tool invocations the agent makes before it answers with response r
ToolsInvoked(r) == IF r = "agent_failure" THEN 0 ELSE 1

\* how one attempt may settle: attempt() of the options, with the number of
\* tool invocations made while it ran
attempt(e) ==
    IF e = "directCall" THEN {[res |-> o, tools |-> 0] : o \in DirectOutcomes}
    ELSE {[res |-> ContextAnalysis[AnalysisSchema[e]][r], tools |-> ToolsInvoked(r)] :
             r \in Responses(e)}

\* what the sink may answer to an alert of execution e
SinkAnswers(e) == IF e \in sink THEN BOOLEAN ELSE {TRUE}

\* the alert execution e is awaiting the delivery of
awaited(e) == alerts[e][Len(alerts[e])]

\* what the caller of withRetryAndAlerts does with its result, up to its next await
afterRetry(e, res) ==
    IF e = "directCall"
    THEN [pc |-> IF res.ok THEN "returned" ELSE "threw", emit |-> <<>>,
          output |-> IF res.ok THEN res.v ELSE Pending,
          raised |-> IF res.ok THEN NoError ELSE res.error, held |-> NoResult]
    ELSE [pc |-> IF res.ok THEN "completing" ELSE "failing",
          emit |-> IF res.ok THEN <<completedAlert(e, res.v)>>
                   ELSE <<failedAlert(e, res.error)>>,
          output |-> Pending, raised |-> NoError, held |-> res]

\* the execution moves on as k says
Continue(e, k) ==
    /\ pc' = [pc EXCEPT ![e] = k.pc]
    /\ alerts' = [alerts EXCEPT ![e] = @ \o k.emit]
    /\ output' = [output EXCEPT ![e] = k.output]
    /\ raised' = [raised EXCEPT ![e] = k.raised]
    /\ held' = [held EXCEPT ![e] = k.held]

\* the execution throws error out of its execute function
Throw(e, error) ==
    Continue(e, [pc |-> "threw", emit |-> <<>>, output |-> Pending,
                 raised |-> error, held |-> held[e]])

\* a loop that tests its condition after the first attempt only
withinBudgetAfterFirst(index, maxAttempts) == index = 1 \/ index <= maxAttempts

\* attemptIndex <= maxAttempts, the test of the loop
withinBudget(index, maxAttempts) == index <= maxAttempts

\* a test that stops retrying one attempt early
retriesLeftShort(index, maxAttempts) == index < maxAttempts - 1

\* attemptIndex < maxAttempts, the test before the retry alert
retriesLeft(index, maxAttempts) == index < maxAttempts

\* an attempt that is not awaited stays in flight
notAwaited(n) == n

\* await attempt(): the loop goes on only when the attempt has settled
awaitAttempt(n) == n - 1

\* a wrapper whose loop variables are shared by every call in flight
EnterRetryShared(e, maxAttempts) ==
    /\ budget' = [x \in DOMAIN budget |-> maxAttempts]
    /\ attemptIndex' = [x \in DOMAIN attemptIndex |-> 1]
    /\ lastError' = [x \in DOMAIN lastError |-> Undefined]

\* withRetryAndAlerts is entered: the options are destructured, the loop begins
EnterRetry(e, maxAttempts) ==
    /\ budget' = [budget EXCEPT ![e] = maxAttempts]
    /\ attemptIndex' = [attemptIndex EXCEPT ![e] = 1]
    /\ lastError' = [lastError EXCEPT ![e] = Undefined]

\* a direct call of withRetryAndAlerts, with maxAttempts given or left out
RetryCall(e) ==
    /\ run.kind = "call" /\ e = "directCall" /\ pc[e] = "idle"
    /\ \E omitted \in BOOLEAN, given \in -1..MaxBudget :
          EnterRetry(e, IF omitted THEN DefaultMaxAttempts ELSE given)
    /\ pc' = [pc EXCEPT ![e] = "loop"]
    /\ UNCHANGED <<run, inputData, inFlight, attemptLog, agentCalls, held, alerts,
                   delivery, sink, output, raised, call, outcome, cliToolMetrics, env>>

\* the loop test; the attempt is started, or the loop is left and lastError thrown
LoopTest(e) ==
    /\ pc[e] = "loop"
    /\ IF withinBudget(attemptIndex[e], budget[e])
       THEN /\ inFlight' = [inFlight EXCEPT ![e] = @ + 1]
            /\ agentCalls' = [agentCalls EXCEPT ![e] = IF e = "directCall" THEN @ ELSE @ + 1]
            /\ pc' = [pc EXCEPT ![e] = "attempt"]
            /\ UNCHANGED <<alerts, output, raised, held>>
       ELSE /\ Continue(e, afterRetry(e, Threw(asError(lastError[e]), "retry")))
            /\ UNCHANGED <<inFlight, agentCalls>>
    /\ UNCHANGED <<run, inputData, budget, attemptIndex, lastError, attemptLog,
                   delivery, sink, call, outcome, cliToolMetrics, env>>

\* the attempt returns: withRetryAndAlerts returns its value
AttemptReturns(e) ==
    /\ pc[e] = "attempt"
    /\ \E a \in attempt(e) :
          /\ a.res.ok
          /\ attemptLog' = [attemptLog EXCEPT ![e] = Append(@, a.res)]
          /\ cliToolMetrics' = [callCount |-> cliToolMetrics.callCount + a.tools]
          /\ Continue(e, afterRetry(e, a.res))
    /\ inFlight' = [inFlight EXCEPT ![e] = awaitAttempt(@)]
    /\ UNCHANGED <<run, inputData, budget, attemptIndex, lastError, agentCalls,
                   delivery, sink, call, outcome, env>>

\* the attempt throws: a retry alert when attempts are left, else the error is rethrown
AttemptThrows(e) ==
    /\ pc[e] = "attempt"
    /\ Composed => env.faults < MaxFaults
    /\ env' = [env EXCEPT !.faults = IF Composed THEN @ + 1 ELSE @]
    /\ \E a \in attempt(e) :
          /\ ~a.res.ok
          /\ attemptLog' = [attemptLog EXCEPT ![e] = Append(@, a.res)]
          /\ lastError' = [lastError EXCEPT ![e] = a.res.error]
          /\ cliToolMetrics' = [callCount |-> cliToolMetrics.callCount + a.tools]
          /\ IF retriesLeft(attemptIndex[e], budget[e])
             THEN Continue(e, [pc |-> "retrying",
                               emit |-> <<retryAlert(e, a.res.error, attemptIndex[e], budget[e])>>,
                               output |-> Pending, raised |-> NoError, held |-> held[e]])
             ELSE Continue(e, afterRetry(e, Threw(asError(a.res.error), "retry")))
    /\ inFlight' = [inFlight EXCEPT ![e] = awaitAttempt(@)]
    /\ UNCHANGED <<run, inputData, budget, attemptIndex, agentCalls,
                   delivery, sink, call, outcome>>

\* a loop that goes round again without counting the attempt
RetryUncounted(e) ==
    /\ pc[e] = "retrying"
    /\ delivery' = [delivery EXCEPT ![e] = Append(@, TRUE)]
    /\ pc' = [pc EXCEPT ![e] = "loop"]
    /\ UNCHANGED <<run, inputData, budget, attemptIndex, inFlight, lastError, attemptLog,
                   agentCalls, held, alerts, sink, output, raised, call, outcome,
                   cliToolMetrics, env>>

\* the awaited retry alert settles: the loop continues with the next attempt
RetryNotified(e) ==
    /\ pc[e] = "retrying"
    /\ \E taken \in SinkAnswers(e) :
          LET n == notifyStepStatus(awaited(e), taken)
          IN  /\ delivery' = [delivery EXCEPT ![e] = Append(@, n.delivered)]
              /\ IF n.rejected
                 THEN /\ Continue(e, afterRetry(e, Threw(n.error, "notify")))
                      /\ UNCHANGED attemptIndex
                 ELSE /\ attemptIndex' = [attemptIndex EXCEPT ![e] = @ + 1]
                      /\ pc' = [pc EXCEPT ![e] = "loop"]
                      /\ UNCHANGED <<alerts, output, raised, held>>
    /\ UNCHANGED <<run, inputData, budget, inFlight, lastError, attemptLog, agentCalls,
                   sink, call, outcome, cliToolMetrics, env>>

\* the inputs the steps are run with
Inputs ==
    {JObj(<< [k |-> "containerId", v |-> JStr(<<"c", "1">>)],
             [k |-> "repoPath", v |-> JStr(<<"/", "a", "p", "p">>)],
             [k |-> "projectId", v |-> JStr(<<"p", "1">>)] >>),
     JObj(<< [k |-> "containerId", v |-> JStr(<<"c", "2">>)],
             [k |-> "projectId", v |-> JStr(<<"p", "2">>)] >>)}

\* a stage of a workflow: one step appended by .then, or the member steps
\* appended by .parallel
Stage(parallel, steps) == [parallel |-> parallel, steps |-> steps]

Then(step) == Stage(FALSE, <<step>>)

Parallel(steps) == Stage(TRUE, steps)

\* a composition that saves the context before it is synthesized
savesBeforeSynthesis ==
    << Then("dockerSetupStep"),
       Then("githubCloneStep"),
       Parallel(<<"postProjectDescriptionStep", "postProjectStackStep">>),
       Then("dockerSaveContextStep"),
       Then("contextGatheringStartStep"),
       Parallel(<<"analyzeRepositoryStep", "analyzeCodebaseStep",
                  "analyzeBuildDeploymentStep">>),
       Then("saveContextStep"),
       Then("synthesizeContextStep"),
       Then("checkSavedPlanStep"),
       Then("loadContextAndPlanStep"),
       Then("generateTestCodeStep"),
       Then("finalizeStep"),
       Then("prepareCommitAndPushStep"),
       Then("createPullRequestStep"),
       Then("postPrUrlStep"),
       Then("runCoverageStep"),
       Then("postCoverageStep"),
       Then("fullPipelineOutputNormalizer") >>

\* the full pipeline as it is composed; the steps go by the names of their
\* definitions (the pipeline imports some of them under other names)
fullPipelineWorkflow ==
    << Then("dockerSetupStep"),
       Then("githubCloneStep"),
       Parallel(<<"postProjectDescriptionStep", "postProjectStackStep">>),
       Then("dockerSaveContextStep"),
       Then("contextGatheringStartStep"),
       Parallel(<<"analyzeRepositoryStep", "analyzeCodebaseStep",
                  "analyzeBuildDeploymentStep">>),
       Then("synthesizeContextStep"),
       Then("saveContextStep"),
       Then("checkSavedPlanStep"),
       Then("loadContextAndPlanStep"),
       Then("generateTestCodeStep"),
       Then("finalizeStep"),
       Then("prepareCommitAndPushStep"),
       Then("createPullRequestStep"),
       Then("postPrUrlStep"),
       Then("runCoverageStep"),
       Then("postCoverageStep"),
       Then("fullPipelineOutputNormalizer") >>

\* a parallel phase of three steps that return or throw, and the step after it
parallelPhase ==
    << Parallel(<<"memberA", "memberB", "memberC">>), Then("afterJoin") >>

\* the workflow of the run
Workflow == IF run.kind = "phase" THEN parallelPhase ELSE fullPipelineWorkflow

Range(seq) == {seq[i] : i \in 1..Len(seq)}

\* the stage the run of a workflow is at (none once it is past the last one)
AtStage == Composed /\ run.status = "running" /\ run.stage <= Len(Workflow)

\* the steps the run is ready to execute, and the input it gives them: every
\* step of the stage gets the output of the stage before
Scheduled ==
    IF run.kind = "step" /\ run.status = "running" THEN {run.stage}
    ELSE IF AtStage THEN Range(Workflow[run.stage].steps)
    ELSE {}

StageInput == run.data

\* execute is entered: the starting alert is handed over and awaited
StepStarts(e) ==
    /\ e \in Scheduled /\ pc[e] = "idle"
    /\ inputData' = [inputData EXCEPT ![e] = StageInput]
    /\ Continue(e, [pc |-> "starting", emit |-> <<startingAlert(e)>>, output |-> Pending,
                    raised |-> NoError, held |-> held[e]])
    /\ UNCHANGED <<run, budget, attemptIndex, inFlight, lastError, attemptLog, agentCalls,
                   delivery, sink, call, outcome, cliToolMetrics, env>>

\* the starting alert settles: an analysis step enters withRetryAndAlerts, the
\* gather start step hands over its completed alert
StartingNotified(e) ==
    /\ pc[e] = "starting"
    /\ \E taken \in SinkAnswers(e) :
          LET n == notifyStepStatus(awaited(e), taken)
          IN  /\ delivery' = [delivery EXCEPT ![e] = Append(@, n.delivered)]
              /\ IF n.rejected
                 THEN Throw(e, n.error) /\ UNCHANGED <<budget, attemptIndex, lastError>>
                 ELSE IF e \in AnalysisSteps
                 THEN /\ EnterRetry(e, StepMaxAttempts)
                      /\ pc' = [pc EXCEPT ![e] = "loop"]
                      /\ UNCHANGED <<alerts, output, raised, held>>
                 ELSE /\ Continue(e, [pc |-> "completing",
                                      emit |-> <<completedAlert(e, inputData[e])>>,
                                      output |-> Pending, raised |-> NoError,
                                      held |-> Returned(inputData[e], "none")])
                      /\ UNCHANGED <<budget, attemptIndex, lastError>>
    /\ UNCHANGED <<run, inputData, inFlight, attemptLog, agentCalls, sink, call, outcome,
                   cliToolMetrics, env>>

\* the value the step returns after its completed alert
completedOutput(e, in, result) ==
    IF e \in AnalysisSteps THEN stepOutput(e, in, result) ELSE in

\* the completed alert settles: the step returns its result
CompletedNotified(e) ==
    /\ pc[e] = "completing"
    /\ \E taken \in SinkAnswers(e) :
          LET n == notifyStepStatus(awaited(e), taken)
          IN  /\ delivery' = [delivery EXCEPT ![e] = Append(@, n.delivered)]
              /\ IF ~n.rejected
                 THEN Continue(e, [pc |-> "returned", emit |-> <<>>,
                                   output |-> completedOutput(e, inputData[e], held[e].v),
                                   raised |-> NoError, held |-> held[e]])
                 ELSE IF e \in AnalysisSteps
                 THEN Continue(e, afterRetry(e, Threw(n.error, "notify")))
                 ELSE Throw(e, n.error)
    /\ UNCHANGED <<run, inputData, budget, attemptIndex, inFlight, lastError, attemptLog,
                   agentCalls, sink, call, outcome, cliToolMetrics, env>>

\* the failed alert settles: the step returns its fallback structure
FailedNotified(e) ==
    /\ pc[e] = "failing"
    /\ \E taken \in SinkAnswers(e) :
          LET n == notifyStepStatus(awaited(e), taken)
          IN  /\ delivery' = [delivery EXCEPT ![e] = Append(@, n.delivered)]
              /\ IF n.rejected THEN Throw(e, n.error)
                 ELSE Continue(e, [pc |-> "returned", emit |-> <<>>,
                                   output |-> stepOutput(e, inputData[e], Fallback[e]),
                                   raised |-> NoError, held |-> held[e]])
    /\ UNCHANGED <<run, inputData, budget, attemptIndex, inFlight, lastError, attemptLog,
                   agentCalls, sink, call, outcome, cliToolMetrics, env>>

-----------------------------------------------------------------------------
(* The steps of the full pipeline                                          *)

\* a text given in one piece
Text(str) == IF str = "" THEN <<>> ELSE <<str>>

\* a property of an object literal
P(k, v) == [k |-> k, v |-> v]

\* an object literal as it is serialized: undefined properties are left out
Props(kv) == JObj(SelectSeq(kv, LAMBDA p : p.v # JUndef))

\* { ...o, k1: v1, ... }
RECURSIVE assign(_, _)
assign(o, kv) ==
    IF kv = <<>> THEN Props(o.kv)
    ELSE Once(LAMBDA next : assign(next, Tail(kv)), Put(o, kv[1].k, kv[1].v))

\* a || b
OrElse(a, b) == IF Truthy(a) THEN a ELSE b

\* the digits of a number
RECURSIVE digits(_)
digits(n) ==
    IF n < 10 THEN <<ToString(n)>>
    ELSE Once(digits, n \div 10) \o <<ToString(n % 10)>>

\* a number as a JSON value
Num(n) == JNum(digits(n))

\* what one execution of a step comes to: the value returned or the error
\* thrown, and the alerts handed to notifyStepStatus on the way
Returns(v, emitted) == [threw |-> FALSE, v |-> v, error |-> NoError, emit |-> emitted]
Raises(error, emitted) == [threw |-> TRUE, v |-> Pending, error |-> error, emit |-> emitted]

\* the id that docker inspect prints for the new container
InspectOut == <<"c", "1", "\n">>

dockerSetupDone(in, inspectOut, containerId, count) ==
    Returns(Props(<< P("result", OrElse(JStr(inspectOut), JStr(Text("Operation completed")))),
                     P("success", JBool(TRUE)),
                     P("toolCallCount", Num(count)),
                     P("containerId", JStr(containerId)),
                     P("contextData", Get(in, "contextData")),
                     P("repositoryUrl", Get(in, "repositoryUrl")),
                     P("projectId", Get(in, "projectId")) >>),
            << Alert("dockerSetupStep", "starting", "Docker setup",
                     "Building image and starting container", "", 0, 0),
               Alert("dockerSetupStep", "completed", "Docker setup completed",
                     "Container ready (" \o Str(substring(containerId, 0, 12)) \o ")",
                     "", 0, 0) >>)

dockerSetupFailed(error) ==
    Raises(error,
           << Alert("dockerSetupStep", "starting", "Docker setup",
                    "Building image and starting container", "", 0, 0),
              Alert("dockerSetupStep", "failed", "Docker setup failed",
                    getErrorMessage(error), "error", 0, 0) >>)

\* dockerSetupStep: the image is built and the container started, or the error
\* of the failing command is rethrown after the failed alert
dockerSetupStep(in, w, count) ==
    IF w = "ok" THEN dockerSetupDone(in, InspectOut, trim(InspectOut), count)
    ELSE dockerSetupFailed(Error("Error", "docker build failed"))

NoCoordinates == [threw |-> FALSE, error |-> NoError, owner |-> JUndef, repo |-> JUndef,
                  resolvedRepoPath |-> <<>>]

Coordinates(owner, repo, resolvedRepoPath) ==
    [threw |-> FALSE, error |-> NoError, owner |-> owner, repo |-> repo,
     resolvedRepoPath |-> resolvedRepoPath]

BadCoordinates(message) == [NoCoordinates EXCEPT !.threw = TRUE, !.error = Error("Error", message)]

\* the characters of cs from position p up to the first one in stops
RECURSIVE upTo(_, _, _)
upTo(cs, p, stops) ==
    IF p > Len(cs) \/ cs[p] \in stops THEN <<>> ELSE <<cs[p]>> \o upTo(cs, p + 1, stops)

S_githubCom == <<"g","i","t","h","u","b",".","c","o","m","/">>

S_defaultRepo == <<"y","c","-","2","4","h","-","h","a","c","k","a","t","h","o","n","-",
                   "a","g","e","n","t">>

S_defaultOwner == <<"A","n","t","o","n","i","o","A","E","M","a","r","t","i","n","s">>

\* repoUrl.match(/github\.com\/([^\/]+)\/([^\/\.]+)/) at the first "github.com/"
githubMatch(repoUrl, owner, rest) ==
    IF owner # <<>> /\ rest <= Len(repoUrl) /\ repoUrl[rest] = "/"
       /\ upTo(repoUrl, rest + 1, {"/", "."}) # <<>>
    THEN Coordinates(JStr(owner), JStr(upTo(repoUrl, rest + 1, {"/", "."})),
                     owner \o <<"/">> \o upTo(repoUrl, rest + 1, {"/", "."}))
    ELSE BadCoordinates("Invalid GitHub URL format: " \o Str(repoUrl))

githubUrl(repoUrl, at) ==
    githubMatch(repoUrl, upTo(repoUrl, at + 11, {"/"}),
                at + 11 + Len(upTo(repoUrl, at + 11, {"/"})))

\* const [ownerPart, repoPart] = repoUrl.split('/')
ownerRepo(repoUrl, ownerPart, repoPart) ==
    IF ownerPart # <<>> /\ repoPart # <<>>
    THEN Coordinates(JStr(ownerPart), JStr(repoPart), repoUrl)
    ELSE BadCoordinates("Invalid repository format: " \o Str(repoUrl)
                        \o ". Expected format: \"owner/repo\"")

fromUrl(repoUrl) ==
    IF includes(repoUrl, S_githubCom) THEN githubUrl(repoUrl, IndexFrom(repoUrl, S_githubCom, 1))
    ELSE IF includes(repoUrl, <<"/">>) /\ ~includes(repoUrl, <<" ">>)
    THEN ownerRepo(repoUrl, upTo(repoUrl, 1, {"/"}),
                   upTo(repoUrl, Len(upTo(repoUrl, 1, {"/"})) + 2, {"/"}))
    ELSE BadCoordinates("Invalid repository format: " \o Str(repoUrl)
                        \o ". Expected format: \"owner/repo\" or GitHub URL")

stringOrUndefined(v) == IF v.t = "str" THEN v ELSE JUndef

\* owner and repo completed from fullName when one of them is missing
fromFullName(owner, repo, fullName) ==
    IF (~Truthy(owner) \/ ~Truthy(repo)) /\ Truthy(fullName) /\ includes(fullName.s, <<"/">>)
    THEN << OrElse(owner, JStr(upTo(fullName.s, 1, {"/"}))),
            OrElse(repo, JStr(upTo(fullName.s, Len(upTo(fullName.s, 1, {"/"})) + 2, {"/"}))) >>
    ELSE << owner, repo >>

resolved(pair) ==
    Coordinates(pair[1], pair[2],
                IF Truthy(pair[1]) /\ Truthy(pair[2]) THEN pair[1].s \o <<"/">> \o pair[2].s
                ELSE S_defaultOwner \o <<"/">> \o S_defaultRepo)

fromContext(context) ==
    resolved(fromFullName(stringOrUndefined(Get(context, "owner")),
                          stringOrUndefined(Get(context, "repo")),
                          OrElse(stringOrUndefined(Get(context, "fullName")),
                                 stringOrUndefined(Get(context, "full_name")))))

\* owner, repo and resolvedRepoPath from the repository URL, else from the context data
extractRepoCoordinates(repositoryUrl, contextData) ==
    IF Truthy(repositoryUrl) THEN fromUrl(trim(repositoryUrl.s))
    ELSE fromContext(OrElse(contextData, JObj(<<>>)))

S_dotGit == <<".", "g", "i", "t">>

\* name.replace(/\.git$/, '')
withoutGitSuffix(name) ==
    IF Len(name) >= 4 /\ SubSeq(name, Len(name) - 3, Len(name)) = S_dotGit
    THEN SubSeq(name, 1, Len(name) - 4) ELSE name

\* (repoName && typeof repoName === 'string') ? ... : 'yc-24h-hackathon-agent'
inferredRepoName(repoName) ==
    IF Truthy(repoName) /\ repoName.t = "str" THEN withoutGitSuffix(repoName.s)
    ELSE S_defaultRepo

cloneStarting ==
    Alert("githubCloneStep", "starting", "Cloning repository",
          "Preparing to clone repo into container", "", 0, 0)

githubCloneDone(in, coordinates, execStdout, count) ==
    Returns(Props(<< P("result", JStr(execStdout)),
                     P("success", JBool(TRUE)),
                     P("toolCallCount", Num(count)),
                     P("containerId", Get(in, "containerId")),
                     P("contextData", Get(in, "contextData")),
                     P("repositoryUrl", Get(in, "repositoryUrl")),
                     P("projectId", Get(in, "projectId")),
                     P("repoPath", JStr(<<"/", "a", "p", "p", "/">>
                                        \o inferredRepoName(coordinates.repo))) >>),
            << cloneStarting,
               Alert("githubCloneStep", "completed", "Repository cloned",
                     "Repository cloned successfully", "", 0, 0) >>)

CloneFailure == Error("Error", "Git clone failed: fatal: repository not found")

githubCloneWith(in, coordinates, w, count) ==
    IF coordinates.threw THEN Raises(coordinates.error, <<cloneStarting>>)
    ELSE IF w = "clone_fails"
    THEN Raises(CloneFailure, <<cloneStarting>>)
    ELSE githubCloneDone(in, coordinates, Text("Repository cloned successfully\n"), count)

\* githubCloneStep: the promise rejects when the credentials file is missing,
\* the coordinates are invalid or a command fails; no alert tells of it
githubCloneStep(in, w, count) ==
    IF w = "no_credentials"
    THEN Raises(Error("Error", ".docker.credentials not found. Checked: .docker.credentials"),
                <<cloneStarting>>)
    ELSE githubCloneWith(in, extractRepoCoordinates(Get(in, "repositoryUrl"),
                                                    Get(in, "contextData")), w, count)

\* what a step posting to the backend returns: its input, as it is
postProjectOutput(in) ==
    assign(in, << P("repositoryUrl", Get(in, "repositoryUrl")),
                  P("projectId", Get(in, "projectId")) >>)

\* postProjectDescriptionStep: the description comes from the agent or, when the
\* agent fails, from static heuristics; a failed post is reported by an alert only
postProjectDescriptionStep(in, w) ==
    Returns(postProjectOutput(in),
            << Alert("postProjectDescriptionStep", "starting", "Post project description",
                     "Posting description to backend", "", 0, 0),
               CASE w = "rejected" ->
                      Alert("postProjectDescriptionStep", "failed", "Description post failed",
                            "Failed to post description", "", 0, 0)
                 [] w = "network_error" ->
                      Alert("postProjectDescriptionStep", "failed", "Description post failed",
                            "Network error", "", 0, 0)
                 [] OTHER ->
                      Alert("postProjectDescriptionStep", "completed", "Description posted",
                            "Posted to project " \o Str(JSString(Get(in, "projectId"))),
                            "", 0, 0) >>)

\* postProjectStackStep: the detected technologies are posted one by one
postProjectStackStep(in, w) ==
    Returns(postProjectOutput(in),
            << Alert("postProjectStackStep", "starting", "Post project stack",
                     "Posting tech stack to backend", "", 0, 0),
               CASE w = "rejected" ->
                      Alert("postProjectStackStep", "failed", "Stack post failed",
                            "Failed to post stack: TypeScript: 500 ", "", 0, 0)
                 [] w = "network_error" ->
                      Alert("postProjectStackStep", "failed", "Stack post failed",
                            "Network error during stack posting", "", 0, 0)
                 [] OTHER ->
                      Alert("postProjectStackStep", "completed", "Stack posted",
                            "Posted 1/1 technologies", "", 0, 0) >>)

S_contextPath == Text("/app/agent.context.json")

saveStarting(contextData) ==
    Alert("dockerSaveContextStep", "starting", "Saving context to container",
          "Writing " \o (IF Truthy(contextData) THEN "provided" ELSE "no") \o " context data",
          "", 0, 0)

dockerSaveOutput(desc, result, success, count) ==
    Props(<< P("result", JStr(Text(result))),
             P("success", JBool(success)),
             P("toolCallCount", Num(count)),
             P("containerId", Get(desc, "containerId")),
             P("contextPath", JStr(S_contextPath)),
             P("repoPath", OrElse(OrElse(Get(desc, "repoPath"), JStr(<<>>)),
                                  JStr(<<"/", "a", "p", "p">>))),
             P("projectId", Get(desc, "projectId")) >>)

\* a catch block that rethrows the error after the failed alert
dockerSaveRethrown(desc, error, count) ==
    Raises(error,
           << saveStarting(Get(desc, "contextData")),
              Alert("dockerSaveContextStep", "failed", "Context save failed",
                    getErrorMessage(error), "error", 0, 0) >>)

\* the catch block: the failed alert, and an output with success false
dockerSaveFailed(desc, error, count) ==
    Returns(dockerSaveOutput(desc, "Context save failed: " \o getErrorMessage(error),
                             FALSE, count),
            << saveStarting(Get(desc, "contextData")),
               Alert("dockerSaveContextStep", "failed", "Context save failed",
                     getErrorMessage(error), "error", 0, 0) >>)

dockerSaveDone(desc, fileSize, count) ==
    Returns(dockerSaveOutput(desc, "Context successfully saved to " \o Str(S_contextPath)
                                   \o " (" \o fileSize \o " bytes)", TRUE, count),
            << saveStarting(Get(desc, "contextData")),
               Alert("dockerSaveContextStep", "completed", "Context saved",
                     "Saved to " \o Str(S_contextPath), "", 0, 0) >>)

dockerSaveWith(desc, w, count) ==
    IF ~Truthy(Get(desc, "contextData"))
    THEN dockerSaveFailed(desc, Error("Error",
             "No context data provided to saveContextStep - workflow execution error"), count)
    ELSE IF w = "copy_fails"
    THEN dockerSaveFailed(desc, Error("Error",
             "Failed to copy context file to container: no such container"), count)
    ELSE IF w = "verify_fails"
    THEN dockerSaveFailed(desc, Error("Error",
             "Context file verification failed: container is not running"), count)
    ELSE dockerSaveDone(desc, "42", count)

\* dockerSaveContextStep: reads the output of postProjectDescriptionStep from the
\* join record; every failure is caught and returned with success false
dockerSaveContextStep(in, w, count) ==
    dockerSaveWith(Get(in, "postProjectDescriptionStep"), w, count)

\* the insights, confidence and summary synthesizeContextStep falls back to
FallbackInsights ==
    JObj(<< P("complexity", JStr(<<"m","o","d","e","r","a","t","e">>)),
            P("maturity", JStr(<<"d","e","v","e","l","o","p","m","e","n","t">>)),
            P("maintainability", JStr(<<"f","a","i","r">>)),
            P("recommendations", JArr(<< JStr(Text("Complete the codebase analysis")),
                                         JStr(Text("Implement proper error handling")) >>)),
            P("potentialIssues",
              JArr(<< JStr(Text("Incomplete analysis due to technical issues")) >>)),
            P("strengthsWeaknesses", JObj(<<
                P("strengths", JArr(<< JStr(Text("Project structure is present")) >>)),
                P("weaknesses",
                  JArr(<< JStr(Text("Analysis was incomplete due to technical issues")) >>))
              >>)) >>)

FallbackConfidence ==
    JObj(<< P("repository", JNum(<<"0", ".", "3">>)),
            P("codebase", JNum(<<"0", ".", "2">>)),
            P("buildDeploy", JNum(<<"0", ".", "2">>)),
            P("overall", JNum(<<"0", ".", "2">>)) >>)

FallbackSummary ==
    JStr(Text("Analysis was incomplete due to technical issues during the codebase examination. The repository structure was partially analyzed, but a more thorough investigation would be needed to provide accurate insights and recommendations."))

synthesizeStarting ==
    Alert("synthesizeContextStep", "starting", "Synthesize context",
          "Generating insights and executive summary", "", 0, 0)

\* { ...result, containerId, projectId } after the completed alert
synthesized(in, result) ==
    Returns(assign(result,
                   << P("containerId", Get(Get(in, "analyzeRepositoryStep"), "containerId")),
                      P("projectId", Get(Get(in, "analyzeRepositoryStep"), "projectId")) >>),
            << synthesizeStarting,
               Alert("synthesizeContextStep", "completed", "Synthesize context completed",
                     "Summary length: " \o ToString(Len(Get(result, "executiveSummary").s)),
                     "", 0, 0) >>)

\* the catch block: the failed alert, then the analyses with fallback insights
synthesizeFallback(in, error) ==
    Returns(Props(<< P("containerId", Get(Get(in, "analyzeRepositoryStep"), "containerId")),
                     P("repository", Get(Get(in, "analyzeRepositoryStep"), "repository")),
                     P("codebase", Get(Get(in, "analyzeCodebaseStep"), "codebase")),
                     P("buildDeploy", Get(Get(in, "analyzeBuildDeploymentStep"), "buildDeploy")),
                     P("insights", FallbackInsights),
                     P("confidence", FallbackConfidence),
                     P("executiveSummary", FallbackSummary),
                     P("projectId", Get(Get(in, "analyzeRepositoryStep"), "projectId")) >>),
            << synthesizeStarting,
               Alert("synthesizeContextStep", "failed", "Synthesize context failed",
                     getErrorMessage(error), "error", 0, 0) >>)

\* synthesizeContextStep: one call of callContextAgentForAnalysis, res being
\* what it returned or threw
synthesizeContextStep(in, res) ==
    IF res.ok THEN synthesized(in, res.v) ELSE synthesizeFallback(in, res.error)

\* const { containerId, projectId, ...rest } = o
omit(o, keys) == JObj(SelectSeq(o.kv, LAMBDA p : p.k \notin keys))

saveStartingAlert ==
    Alert("saveContextStep", "starting", "Save unit test context",
          "Writing agent.context.json", "", 0, 0)

saveContextOutput(in, contextPath, parsed) ==
    Props(<< P("containerId", Get(in, "containerId")),
             P("contextPath", JStr(contextPath)),
             P("repoContext", parsed),
             P("projectId", Get(in, "projectId")) >>)

saveContextWith(in, parsed, w) ==
    IF ~parsed.ok THEN Raises(parsed.error, <<saveStartingAlert>>)
    ELSE IF w = "copy_fails"
    THEN Returns(saveContextOutput(in, Text("not-saved"), parsed.v),
                 << saveStartingAlert,
                    Alert("saveContextStep", "failed", "Save unit test context failed",
                          "Failed to copy context file to container: no such container",
                          "error", 0, 0) >>)
    ELSE Returns(saveContextOutput(in, S_contextPath, parsed.v),
                 << saveStartingAlert,
                    Alert("saveContextStep", "completed", "Saved unit test context",
                          "Path: " \o Str(S_contextPath), "", 0, 0) >>)

\* saveContextStep: the context is validated before the try block, so a context
\* that fails RepoContextSchema is thrown; a failed copy is caught
saveContextStep(in, w) ==
    saveContextWith(in, zparse(RepoContextSchema, omit(in, {"containerId", "projectId"}), "$"),
                    w)

\* the steps of the unit test generation phase: each hands on the container,
\* the context path and the project of its input with what it produced, or throws
generationOutput(in, produced) ==
    assign(Props(<< P("containerId", Get(in, "containerId")),
                    P("contextPath", Get(in, "contextPath")),
                    P("projectId", Get(in, "projectId")) >>), produced)

generationStep(e, in, w, produced) ==
    IF w = "fails" THEN Raises(Error("Error", e \o " failed"), <<>>)
    ELSE Returns(generationOutput(in, produced), <<>>)

checkSavedPlanStep(in, w) ==
    generationStep("checkSavedPlanStep", in, w, << P("skipToGeneration", JBool(FALSE)) >>)

loadContextAndPlanStep(in, w) ==
    generationStep("loadContextAndPlanStep", in, w,
                   << P("repoAnalysis",
                        JObj(<< P("sourceModules", JArr(<<>>)),
                                P("testingFramework", JStr(Text("vitest"))),
                                P("testDirectory", JStr(Text("tests"))),
                                P("totalFiles", Num(0)) >>)),
                      P("testSpecs", JArr(<<>>)) >>)

generateTestCodeStep(in, w) ==
    generationStep("generateTestCodeStep", in, w,
                   << P("testGeneration",
                        JObj(<< P("testFiles", JArr(<<>>)),
                                P("summary",
                                  JObj(<< P("totalSourceFiles", Num(0)),
                                          P("totalTestFiles", Num(0)),
                                          P("totalFunctions", Num(0)),
                                          P("totalTestCases", Num(0)),
                                          P("successfulFiles", Num(0)),
                                          P("failedFiles", Num(0)) >>)),
                                P("quality",
                                  JObj(<< P("syntaxValid", JBool(TRUE)),
                                          P("followsBestPractices", JBool(TRUE)),
                                          P("coverageScore", Num(0)) >>)) >>)),
                      P("repoAnalysis", Get(in, "repoAnalysis")),
                      P("testSpecs", Get(in, "testSpecs")) >>)

finalizeStep(in, w, count) ==
    generationStep("finalizeStep", in, w,
                   << P("result", JStr(Text("Unit test generation completed"))),
                      P("success", JBool(TRUE)),
                      P("toolCallCount", Num(count)),
                      P("testGeneration", Get(in, "testGeneration")),
                      P("recommendations", JArr(<<>>)) >>)

pushStarting ==
    Alert("prepare-commit-and-push-step", "starting", "Prepare commit & push",
          "Creating branch and committing tests", "", 0, 0)

\* what the step settles on for the branch: the plan of the agent, or its own
\* defaults with the owner and the name read from the remote URL
Plan(branchName, baseBranch, repoOwner, repoName, commitMessage) ==
    [branchName |-> branchName, baseBranch |-> baseBranch, repoOwner |-> repoOwner,
     repoName |-> repoName, commitMessage |-> commitMessage]

pushPlan(w) ==
    CASE w \in {"pushed", "push_fails"} -> Plan("tests/unit", "main", "o", "r", "Add unit tests for r")
      [] w = "no_remote" -> Plan("mastra/unit-tests-1", "main", "", "", "Add unit tests")
      [] w = "base_planned" -> Plan("main", "main", "o", "r", "Add unit tests")
      [] OTHER -> Plan("mastra/unit-tests-1", "main", "o", "r", "Add unit tests")

pushed(in, repoPath, plan) ==
    Returns(Props(<< P("containerId", Get(in, "containerId")),
                     P("repoPath", repoPath),
                     P("branchName", JStr(Text(plan.branchName))),
                     P("baseBranch", JStr(Text(plan.baseBranch))),
                     P("repoOwner", JStr(Text(plan.repoOwner))),
                     P("repoName", JStr(Text(plan.repoName))),
                     P("commitMessage", JStr(Text(plan.commitMessage))),
                     P("projectId", Get(in, "projectId")),
                     P("testGeneration", Get(in, "testGeneration")),
                     P("repoAnalysis", Get(in, "repoAnalysis")),
                     P("testSpecs", Get(in, "testSpecs")),
                     P("result", Get(in, "result")),
                     P("success", Get(in, "success")),
                     P("toolCallCount", Get(in, "toolCallCount")),
                     P("contextPath", Get(in, "contextPath")) >>),
            << pushStarting,
               Alert("prepare-commit-and-push-step", "completed", "Branch pushed",
                     plan.branchName \o " -> " \o plan.baseBranch, "", 0, 0) >>)

pushWith(in, w, plan) ==
    IF plan.repoOwner = "" \/ plan.repoName = ""
    THEN Raises(Error("Error", "Unable to determine repository owner/name from git remote"),
                <<pushStarting>>)
    ELSE IF w = "push_fails"
    THEN Raises(Error("Error", "Failed to push branch: remote rejected"), <<pushStarting>>)
    ELSE pushed(in, OrElse(OrElse(Get(in, "repoPath"), JStr(<<>>)),
                           JStr(<<"/", "a", "p", "p", "/", "r">>)), plan)

\* prepareCommitAndPushStep: a branch is planned, committed to and pushed; a
\* repository that cannot be determined and a failed push are thrown
prepareCommitAndPushStep(in, w) == pushWith(in, w, pushPlan(w))

pullsUrl(in) ==
    "https://github.com/" \o Str(JSString(Get(in, "repoOwner"))) \o "/"
        \o Str(JSString(Get(in, "repoName"))) \o "/pulls"

prStarting(in) ==
    Alert("create-pull-request-step", "starting", "Create pull request",
          Str(JSString(Get(in, "branchName"))) \o " -> "
              \o Str(JSString(Get(in, "baseBranch"))), "", 0, 0)

\* a return that reads the count from the shared counter
prCreatedRecounted(in, title, html_url, number) ==
    Returns(Props(<< P("prUrl", JStr(Text(IF html_url # "" THEN html_url ELSE pullsUrl(in)))),
                     P("prNumber", number),
                     P("projectId", Get(in, "projectId")),
                     P("containerId", Get(in, "containerId")),
                     P("result", Get(in, "result")),
                     P("success", Get(in, "success")),
                     P("toolCallCount", Num(cliToolMetrics.callCount)),
                     P("contextPath", Get(in, "contextPath")) >>),
            << prStarting(in),
               Alert("create-pull-request-step", "completed", title,
                     IF html_url # "" THEN html_url ELSE pullsUrl(in), "", 0, 0) >>)

prCreated(in, title, html_url, number) ==
    Returns(Props(<< P("prUrl", JStr(Text(IF html_url # "" THEN html_url ELSE pullsUrl(in)))),
                     P("prNumber", number),
                     P("projectId", Get(in, "projectId")),
                     P("containerId", Get(in, "containerId")),
                     P("result", Get(in, "result")),
                     P("success", Get(in, "success")),
                     P("toolCallCount", Get(in, "toolCallCount")),
                     P("contextPath", Get(in, "contextPath")) >>),
            << prStarting(in),
               Alert("create-pull-request-step", "completed", title,
                     IF html_url # "" THEN html_url ELSE pullsUrl(in), "", 0, 0) >>)

\* an answer of the GitHub API: res.status, res.ok and res.text()
Response(status, text) == [status |-> status, ok |-> status \in 200..299, text |-> text]

S_noCommits == <<"n", "o", " ", "c", "o", "m", "m", "i", "t", "s">>

S_NoCommitsBetween ==
    <<"N", "o", " ", "c", "o", "m", "m", "i", "t", "s", " ", "b", "e", "t", "w", "e", "e", "n">>

S_ValidationFailed ==
    <<"V", "a", "l", "i", "d", "a", "t", "i", "o", "n", " ", "F", "a", "i", "l", "e", "d">>

\* what GitHub answers to the first and to the second request of
\* createPullRequestStep in world w, and whether the recovery push goes through
PullRequestAnswers(w) ==
    [first |-> CASE w = "rejected" -> Response(500, <<>>)
                 [] w = "invalid" -> Response(422, S_ValidationFailed)
                 [] w \in {"recovered", "recovery_rejected", "recovery_push_fails"} ->
                       Response(422, S_NoCommitsBetween)
                 [] OTHER -> Response(201, <<>>),
     push |-> w # "recovery_push_fails",
     second |-> IF w = "recovery_rejected" THEN Response(422, S_NoCommitsBetween)
                ELSE Response(201, <<>>)]

\* a recovery that is tried after every rejection
recoversFromAnyRejection(res) == ~res.ok

\* res.status === 422 && text.toLowerCase().includes("no commits")
recovers(res) == res.status = 422 /\ includes(toLowerCase(res.text), S_noCommits)

recoveryFailed(in, message) ==
    Raises(Error("Error", "PR creation failed with 422 (no commits). "
                              \o "Recovery attempt also failed: " \o message),
           <<prStarting(in)>>)

\* the recovery: an empty commit is force-pushed and the request sent once more
prRecovery(in, world) ==
    IF ~world.push THEN recoveryFailed(in, "git push failed")
    ELSE IF world.second.ok
    THEN prCreated(in, "PR created (after recovery)", "https://github.com/o/r/pull/7", Num(7))
    ELSE recoveryFailed(in, "PR creation failed after recovery: "
                                \o ToString(world.second.status) \o " "
                                \o Str(world.second.text))

\* what the step does with the answer to its first request
prAnswered(in, w, world) ==
    IF ~world.first.ok
    THEN IF recovers(world.first) THEN prRecovery(in, world)
         ELSE Raises(Error("Error", "Failed to create PR: " \o ToString(world.first.status)
                                        \o " " \o Str(world.first.text)),
                     <<prStarting(in)>>)
    ELSE IF w = "unparsed" THEN prCreated(in, "PR created", "", JUndef)
    ELSE prCreated(in, "PR created", "https://github.com/o/r/pull/7", Num(7))

\* createPullRequestStep: the pull request is created, at the second request
\* when the first found no commits; a missing token or a rejection is thrown
createPullRequestStep(in, w) ==
    IF w = "no_token"
    THEN Raises(Error("Error",
             "GitHub token not found. Ensure .docker.credentials or env GITHUB_PAT exists."),
             <<>>)
    ELSE Once(LAMBDA world : prAnswered(in, w, world), PullRequestAnswers(w))

\* the requests and the push of createPullRequestStep, in the order they are made
prEffects(in, world) ==
    << [do |-> "pullRequest", what |-> world.first] >>
    \o (IF recovers(world.first) /\ world.push
        THEN << [do |-> "push", what |-> Str(JSString(Get(in, "branchName")))],
                [do |-> "pullRequest", what |-> world.second] >>
        ELSE <<>>)

\* a postPrUrlStep that hands on the URL and the result but not the identifiers
postPrUrlWithoutIds(in) ==
    Returns(Props(<< P("prUrl", Get(in, "prUrl")),
                     P("prNumber", Get(in, "prNumber")),
                     P("result", Get(in, "result")),
                     P("success", Get(in, "success")),
                     P("toolCallCount", Get(in, "toolCallCount")),
                     P("contextPath", Get(in, "contextPath")) >>),
            << Alert("post-pr-url-step", "completed", "PR URL reported",
                     Str(JSString(Get(in, "prUrl"))), "", 0, 0) >>)

\* postPrUrlStep: the URL is posted to the backend, best effort
postPrUrlStep(in) ==
    Returns(Props(<< P("prUrl", Get(in, "prUrl")),
                     P("prNumber", Get(in, "prNumber")),
                     P("projectId", Get(in, "projectId")),
                     P("containerId", Get(in, "containerId")),
                     P("result", Get(in, "result")),
                     P("success", Get(in, "success")),
                     P("toolCallCount", Get(in, "toolCallCount")),
                     P("contextPath", Get(in, "contextPath")) >>),
            << Alert("post-pr-url-step", "starting", "Report PR URL",
                     "http://localhost:3000/api/projects/"
                         \o Str(JSString(Get(in, "projectId"))) \o "/pr-url", "", 0, 0),
               Alert("post-pr-url-step", "completed", "PR URL reported",
                     Str(JSString(Get(in, "prUrl"))), "", 0, 0) >>)

\* the value of a digit
digit(c) == CHOOSE n \in 0..9 : ToString(n) = c

\* the number a sequence of digits denotes
RECURSIVE natural(_)
natural(ds) ==
    IF ds = <<>> THEN 0
    ELSE 10 * Once(natural, SubSeq(ds, 1, Len(ds) - 1)) + digit(ds[Len(ds)])

\* the first four decimals of a fraction, filled up with zeros
fourDecimals(fr) == SubSeq(fr \o <<"0", "0", "0", "0">>, 1, 4)

\* the value of an unsigned decimal literal in ten-thousandths (the literals of
\* the model carry no exponent and at most four decimals)
unsigned(lit, whole) ==
    natural(whole) * 10000
        + (IF Len(whole) < Len(lit) /\ lit[Len(whole) + 1] = "."
           THEN natural(fourDecimals(upTo(lit, Len(whole) + 2, {"e", "E"}))) ELSE 0)

tenThousandths(lit) ==
    IF lit # <<>> /\ lit[1] = "-" THEN 0 - unsigned(Tail(lit), upTo(Tail(lit), 1, {".", "e", "E"}))
    ELSE unsigned(lit, upTo(lit, 1, {".", "e", "E"}))

\* Math.max(0, Math.min(1, Number(coverage) || 0)), in ten-thousandths
clamped(n) == IF n < 0 THEN 0 ELSE IF n > 10000 THEN 10000 ELSE n

\* ds without its trailing zeros
RECURSIVE significant(_)
significant(ds) ==
    IF ds # <<>> /\ ds[Len(ds)] = "0" THEN significant(SubSeq(ds, 1, Len(ds) - 1)) ELSE ds

\* the literal of n / scale, scale being 10 ^ places
decimal(n, scale, places) ==
    digits(n \div scale)
        \o (IF n % scale = 0 THEN <<>>
            ELSE <<".">> \o significant(SubSeq(digits(scale + (n % scale)), 2, places + 1)))

\* (coverage * 100).toFixed(2)
percent(n) == digits(n \div 100) \o <<".">> \o SubSeq(digits(100 + (n % 100)), 2, 3)

coverageStarting ==
    Alert("runCoverageStep", "starting", "Run TypeScript + Vitest coverage",
          "Using intelligent agent to validate and calculate coverage", "", 0, 0)

Metric(pct) == JObj(<< P("total", Num(0)), P("covered", Num(0)), P("pct", pct) >>)

\* the stats reported when the agent gave none
defaultStats(n) ==
    JObj(<< P("statements", Metric(JNum(decimal(n, 100, 2)))),
            P("branches", Metric(Num(0))),
            P("functions", Metric(Num(0))),
            P("lines", Metric(JNum(decimal(n, 100, 2)))) >>)

\* an output that reports the coverage run as unsuccessful
coverageOutputUnsuccessful(in, parsed, n) ==
    Returns(Props(<< P("containerId", Get(in, "containerId")),
                     P("projectId", Get(in, "projectId")),
                     P("coverage", JNum(decimal(n, 10000, 4))),
                     P("repoPath", Get(parsed, "repoPath")),
                     P("language", JStr(Text("TypeScript"))),
                     P("framework", JStr(Text("Vitest"))),
                     P("method", Get(parsed, "method")),
                     P("stats", OrElse(Get(parsed, "stats"), defaultStats(n))),
                     P("files", OrElse(Get(parsed, "files"), Num(0))),
                     P("prUrl", Get(in, "prUrl")),
                     P("contextPath", Get(in, "contextPath")),
                     P("result", Get(in, "result")),
                     P("success", JBool(FALSE)),
                     P("toolCallCount", Get(in, "toolCallCount")) >>),
            << coverageStarting,
               Alert("runCoverageStep", "completed", "TypeScript + Vitest coverage calculated",
                     Str(percent(n)) \o "% via " \o Str(JSString(Get(parsed, "method")))
                         \o " (" \o Str(JSString(Get(parsed, "files"))) \o " files)",
                     "", 0, 0) >>)

coverageOutput(in, parsed, n) ==
    Returns(Props(<< P("containerId", Get(in, "containerId")),
                     P("projectId", Get(in, "projectId")),
                     P("coverage", JNum(decimal(n, 10000, 4))),
                     P("repoPath", Get(parsed, "repoPath")),
                     P("language", JStr(Text("TypeScript"))),
                     P("framework", JStr(Text("Vitest"))),
                     P("method", Get(parsed, "method")),
                     P("stats", OrElse(Get(parsed, "stats"), defaultStats(n))),
                     P("files", OrElse(Get(parsed, "files"), Num(0))),
                     P("prUrl", Get(in, "prUrl")),
                     P("contextPath", Get(in, "contextPath")),
                     P("result", Get(in, "result")),
                     P("success", JBool(TRUE)),
                     P("toolCallCount", Get(in, "toolCallCount")) >>),
            << coverageStarting,
               Alert("runCoverageStep", "completed", "TypeScript + Vitest coverage calculated",
                     Str(percent(n)) \o "% via " \o Str(JSString(Get(parsed, "method")))
                         \o " (" \o Str(JSString(Get(parsed, "files"))) \o " files)",
                     "", 0, 0) >>)

\* the agent found no valid project: a completed alert, then the error
coverageInvalid(reason) ==
    Raises(Error("Error", "Invalid project for TypeScript + Vitest coverage: "
                              \o Str(JSString(reason))),
           << coverageStarting,
              Alert("runCoverageStep", "completed", "Project validation failed",
                    Str(JSString(OrElse(reason, JStr(Text("Unknown validation error"))))),
                    "", 0, 0) >>)

\* JSON.parse(jsonText), then CoverageAgentResponseSchema.parse
coverageResponse(jsonText, parsed) ==
    IF ~parsed.ok
    THEN Threw(Error("Error", "Agent returned invalid JSON response. Extracted: \""
                                  \o Str(substring(jsonText, 0, 200)) \o "...\""), "none")
    ELSE LET checked == zparse(CoverageAgentResponseSchema, parsed.v, "$")
         IN  IF checked.ok THEN Returned(checked.v, "none")
             ELSE Threw(Error("Error", "Agent returned invalid JSON response. Extracted: \""
                                  \o Str(substring(jsonText, 0, 200)) \o "...\""), "none")

coverageParse(jsonText) == coverageResponse(jsonText, JSONparse(jsonText))

\* agent.generate and the parsing of its answer in runCoverageStep
coverageAgent(result) ==
    IF result.threw THEN Threw(result.error, "none")
    ELSE coverageParse(extractJsonFromText(IF result.text = <<>> THEN <<"{", "}">>
                                           ELSE result.text))

\* runCoverageStep on every agent result of the model
CoverageAnalysis ==
    [r \in {"coverage", "coverage_nostats", "coverage_invalid", "prose", "agent_failure"} |->
        coverageAgent(AgentResult(r))]

\* runCoverageStep: the error of the agent call or of the parsing is thrown as it
\* is; res is what the call and the parsing came to
runCoverageStep(in, res) ==
    IF ~res.ok THEN Raises(res.error, <<coverageStarting>>)
    ELSE IF ~Truthy(Get(res.v, "isValid")) THEN coverageInvalid(Get(res.v, "reason"))
    ELSE Once(LAMBDA n : coverageOutput(in, res.v, n),
              clamped(tenThousandths(Get(res.v, "coverage").n)))

\* postCoverageStep: the coverage is posted, best effort; the input is returned
postCoverageStep(in) ==
    Once(LAMBDA pct :
            Returns(in,
                    << Alert("postCoverageStep", "starting", "Post TypeScript + Vitest coverage",
                             pct \o "% (" \o Str(JSString(Get(in, "method")))
                                 \o ") -> http://localhost:3000/api/projects/"
                                 \o Str(JSString(Get(in, "projectId"))) \o "/test-coverage",
                             "", 0, 0),
                       Alert("postCoverageStep", "completed",
                             "TypeScript + Vitest coverage posted",
                             pct \o "% (" \o Str(JSString(Get(in, "files"))) \o " files, "
                                 \o Str(JSString(Get(in, "method"))) \o " method)",
                             "", 0, 0) >>),
         Str(percent(Once(tenThousandths, Get(in, "coverage").n))))

\* a ?? b
Coalesce(a, b) == IF a.t \in {"undefined", "null"} THEN b ELSE a

\* the last step of the pipeline: the output is brought to PipelineOutputSchema
fullPipelineOutputNormalizer(in) ==
    Returns(Props(<< P("result", OrElse(Get(in, "result"), JStr(Text("Pipeline completed")))),
                     P("success", Coalesce(Get(in, "success"), JBool(TRUE))),
                     P("toolCallCount", Coalesce(Get(in, "toolCallCount"), Num(0))),
                     P("containerId", OrElse(Get(in, "containerId"), JStr(<<>>))),
                     P("contextPath", Get(in, "contextPath")),
                     P("projectId", OrElse(Get(in, "projectId"), JStr(<<>>))),
                     P("prUrl", OrElse(Get(in, "prUrl"), JStr(<<>>))) >>),
            <<>>)

-----------------------------------------------------------------------------
(* The steps as the engine executes them                                   *)

\* a step of the parallel phase: it returns one of two values or throws
member(e, in, w) ==
    IF w = "raises" THEN Raises(Error("Error", e \o " failed"), <<>>)
    ELSE Returns(JObj(<< P("by", JStr(Text(e))), P("value", JStr(Text(w))),
                         P("input", in) >>), <<>>)

\* the step after the parallel phase returns what it was given
afterJoin(in) == Returns(in, <<>>)

\* what the world may answer to the commands, requests and agent calls of a step
Outcomes(e) ==
    CASE e = "dockerSetupStep" -> {"ok", "build_fails"}
      [] e = "githubCloneStep" -> {"ok", "no_credentials", "clone_fails"}
      [] e = "postProjectDescriptionStep" -> {"posted", "agent_fails", "rejected"}
      [] e = "postProjectStackStep" -> {"posted", "network_error"}
      [] e = "dockerSaveContextStep" -> {"ok", "copy_fails", "verify_fails"}
      [] e = "saveContextStep" -> {"ok", "copy_fails"}
      [] e = "synthesizeContextStep" -> {"context", "prose", "agent_failure"}
      [] e \in {"checkSavedPlanStep", "loadContextAndPlanStep", "generateTestCodeStep",
                "finalizeStep"} -> {"ok", "fails"}
      [] e = "prepareCommitAndPushStep" ->
            {"pushed", "agent_fails", "no_remote", "push_fails", "base_planned"}
      [] e = "createPullRequestStep" ->
            {"created", "no_token", "rejected", "invalid", "recovered", "recovery_rejected",
             "recovery_push_fails", "unparsed"}
      [] e = "runCoverageStep" ->
            {"coverage", "coverage_nostats", "coverage_invalid", "prose", "agent_failure"}
      [] e \in {"memberA", "memberB", "memberC"} -> {"v1", "v2", "raises"}
      [] OTHER -> {"ok"}

\* the answers of a world in which nothing goes wrong
Nominal == {"ok", "posted", "context", "pushed", "created", "coverage", "v1", "v2"}

\* the steps that call agent.generate themselves, outside withRetryAndAlerts
DirectAgentSteps ==
    {"postProjectDescriptionStep", "synthesizeContextStep", "prepareCommitAndPushStep",
     "runCoverageStep"}

\* what the agent call of the step and the parsing of its answer come to
agentAnswer(e, w) ==
    CASE e = "synthesizeContextStep" -> ContextAnalysis["context"][w]
      [] e = "runCoverageStep" -> CoverageAnalysis[w]
      [] e \in {"postProjectDescriptionStep", "prepareCommitAndPushStep"} ->
            IF w \in {"agent_fails", "no_remote"} THEN Threw(AgentFailure, "none")
            ELSE Returned(JStr(Text("answered")), "none")
      [] OTHER -> NoResult

\* the execute function of each step, on the input in, in a world answering w
execute(e, in, w, res, count) ==
    CASE e = "dockerSetupStep" -> dockerSetupStep(in, w, count)
      [] e = "githubCloneStep" -> githubCloneStep(in, w, count)
      [] e = "postProjectDescriptionStep" -> postProjectDescriptionStep(in, w)
      [] e = "postProjectStackStep" -> postProjectStackStep(in, w)
      [] e = "dockerSaveContextStep" -> dockerSaveContextStep(in, w, count)
      [] e = "synthesizeContextStep" -> synthesizeContextStep(in, res)
      [] e = "saveContextStep" -> saveContextStep(in, w)
      [] e = "checkSavedPlanStep" -> checkSavedPlanStep(in, w)
      [] e = "loadContextAndPlanStep" -> loadContextAndPlanStep(in, w)
      [] e = "generateTestCodeStep" -> generateTestCodeStep(in, w)
      [] e = "finalizeStep" -> finalizeStep(in, w, count)
      [] e = "prepareCommitAndPushStep" -> prepareCommitAndPushStep(in, w)
      [] e = "createPullRequestStep" -> createPullRequestStep(in, w)
      [] e = "postPrUrlStep" -> postPrUrlStep(in)
      [] e = "runCoverageStep" -> runCoverageStep(in, res)
      [] e = "postCoverageStep" -> postCoverageStep(in)
      [] e = "fullPipelineOutputNormalizer" -> fullPipelineOutputNormalizer(in)
      [] e = "afterJoin" -> afterJoin(in)
      [] OTHER -> member(e, in, w)

Effect(do, what) == [do |-> do, what |-> what]

\* what the execution k of the step has done outside the process
effects(e, in, w, k) ==
    CASE e = "dockerSetupStep" /\ ~k.threw -> << Effect("container", "running") >>
      [] e = "githubCloneStep" /\ ~k.threw ->
            << Effect("credentials", "copied"), Effect("credentials", "removed") >>
      [] e = "githubCloneStep" /\ k.error = CloneFailure ->
            << Effect("credentials", "copied") >>
      [] e = "dockerSaveContextStep" /\ w # "copy_fails"
         /\ Truthy(Get(Get(in, "postProjectDescriptionStep"), "contextData")) ->
            << Effect("contextFile", "written") >>
      [] e = "saveContextStep" /\ w = "ok" /\ ~k.threw
         /\ Get(k.v, "contextPath") = JStr(S_contextPath) ->
            << Effect("contextFile", "written") >>
      [] e = "prepareCommitAndPushStep" /\ ~k.threw ->
            << Effect("push", Str(Get(k.v, "branchName").s)) >>
      [] e = "createPullRequestStep" /\ w # "no_token" ->
            Once(LAMBDA world : prEffects(in, world), PullRequestAnswers(w))
      [] OTHER -> <<>>

\* the world after one thing was done to it
applied(world, done) ==
    CASE done.do = "container" -> [world EXCEPT !.container = done.what]
      [] done.do = "credentials" -> [world EXCEPT !.credentials = (done.what = "copied")]
      [] done.do = "contextFile" -> [world EXCEPT !.contextFile = TRUE]
      [] done.do = "push" ->
            [world EXCEPT !.pushed = Append(@, done.what), !.log = Append(@, "push")]
      [] OTHER -> [world EXCEPT !.prRequests = @ + 1, !.answers = Append(@, done.what),
                                !.log = Append(@, "request")]

RECURSIVE after(_, _)
after(world, done) ==
    IF done = <<>> THEN world
    ELSE Once(LAMBDA next : after(next, Tail(done)), applied(world, done[1]))

\* the execution of the step settles as k says
Settles(e, in, w, res, k) ==
    /\ inputData' = [inputData EXCEPT ![e] = in]
    /\ Continue(e, [pc |-> IF k.threw THEN "threw" ELSE "returned", emit |-> k.emit,
                    output |-> k.v, raised |-> k.error, held |-> res])
    /\ delivery' = [delivery EXCEPT ![e] =
                       [i \in 1..Len(k.emit) |-> notifyStepStatus(k.emit[i], TRUE).delivered]]
    /\ env' = [Once(LAMBDA done : after(env, done), effects(e, in, w, k)) EXCEPT
                  !.faults = IF w \in Nominal THEN @ ELSE @ + 1]

Performs(e, in, w, res, count) ==
    \E k \in {execute(e, in, w, res, count)} : Settles(e, in, w, res, k)

\* the tool invocations of the agent the step calls, when the agent answers
toolsUsed(e, w) ==
    IF e \in DirectAgentSteps /\ w \notin {"agent_failure", "agent_fails", "no_remote"}
    THEN 1 ELSE 0

\* a step is executed from its first statement to its return or throw: the
\* world answers w, the agent (if the step calls it) is called once
Executes(e) ==
    /\ e \in Scheduled /\ pc[e] = "idle"
    /\ \E w \in Outcomes(e) :
          /\ w \in Nominal \/ env.faults < MaxFaults
          /\ agentCalls' = [agentCalls EXCEPT ![e] = IF e \in DirectAgentSteps THEN 1 ELSE 0]
          /\ cliToolMetrics' = [callCount |-> cliToolMetrics.callCount + toolsUsed(e, w)]
          /\ \E in \in {StageInput}, res \in {agentAnswer(e, w)} :
                Performs(e, in, w, res, cliToolMetrics.callCount + toolsUsed(e, w))
    /\ UNCHANGED <<run, budget, attemptIndex, inFlight, lastError, attemptLog, sink, call,
                   outcome>>

-----------------------------------------------------------------------------
(* The engine                                                              *)

\* the outputs of the members under their step identifiers
joinRecord(steps) == JObj([i \in 1..Len(steps) |-> P(steps[i], output[steps[i]])])

\* a phase that is joined as soon as one member has returned
anyReturned(steps) == \E i \in 1..Len(steps) : pc[steps[i]] = "returned"

\* the phase is complete when every member has returned
joinReady(steps) == \A i \in 1..Len(steps) : pc[steps[i]] = "returned"

\* the run moves on to the next stage with the data it hands over
Advance(data) ==
    /\ run' = [run EXCEPT !.stage = @ + 1, !.data = data]
    /\ UNCHANGED <<inputData, pc, budget, attemptIndex, inFlight, lastError, attemptLog,
                   agentCalls, held, alerts, delivery, sink, output, raised, call, outcome,
                   cliToolMetrics, env>>

\* .then: the step has returned, its output is the input of the next step
StepDone ==
    /\ AtStage /\ ~Workflow[run.stage].parallel
    /\ pc[Workflow[run.stage].steps[1]] = "returned"
    /\ Advance(output[Workflow[run.stage].steps[1]])

\* .parallel: every member has returned, the join record is handed on
Join ==
    /\ AtStage /\ Workflow[run.stage].parallel
    /\ joinReady(Workflow[run.stage].steps)
    /\ Advance(joinRecord(Workflow[run.stage].steps))

\* a step of the stage has thrown: the stage and the run fail with its error
RunFails ==
    /\ AtStage
    /\ \E e \in Range(Workflow[run.stage].steps) :
          /\ pc[e] = "threw"
          /\ run' = [run EXCEPT !.status = "failed", !.error = raised[e]]
    /\ UNCHANGED <<inputData, pc, budget, attemptIndex, inFlight, lastError, attemptLog,
                   agentCalls, held, alerts, delivery, sink, output, raised, call, outcome,
                   cliToolMetrics, env>>

\* the last stage is done: the run ends with the output of the last step
RunCompletes ==
    /\ Composed /\ run.status = "running" /\ run.stage > Len(Workflow)
    /\ run' = [run EXCEPT !.status = "success"]
    /\ UNCHANGED <<inputData, pc, budget, attemptIndex, inFlight, lastError, attemptLog,
                   agentCalls, held, alerts, delivery, sink, output, raised, call, outcome,
                   cliToolMetrics, env>>

-----------------------------------------------------------------------------
(* Calls of the parsing functions                                          *)

NoCall == [fn |-> "none", response |-> "none", schema |-> "none", attemptRecovery |-> FALSE]

\* callContextAgentForAnalysis applied to the response
CallContextAgent ==
    /\ run.kind = "parse" /\ call.fn = "none"
    /\ \E r \in ResponseIds, k \in SchemaIds :
          /\ call' = [fn |-> "callContextAgentForAnalysis", response |-> r, schema |-> k,
                      attemptRecovery |-> TRUE]
          /\ outcome' = ContextAnalysis[k][r]
    /\ UNCHANGED <<run, inputData, pc, budget, attemptIndex, inFlight, lastError,
                   attemptLog, agentCalls, held, alerts, delivery, sink, output, raised,
                   cliToolMetrics, env>>

\* parseAgentJsonResponse applied to the response
CallParseAgentJson ==
    /\ run.kind = "parse" /\ call.fn = "none"
    /\ \E r \in ResponseIds, k \in SchemaIds, attemptRecovery \in BOOLEAN :
          /\ call' = [fn |-> "parseAgentJsonResponse", response |-> r, schema |-> k,
                      attemptRecovery |-> attemptRecovery]
          /\ outcome' = parseAgentJsonResponse(ResponseText[r], SchemaOf[k], attemptRecovery)
    /\ UNCHANGED <<run, inputData, pc, budget, attemptIndex, inFlight, lastError,
                   attemptLog, agentCalls, held, alerts, delivery, sink, output, raised,
                   cliToolMetrics, env>>

-----------------------------------------------------------------------------
(* Specifications                                                          *)

\* nothing has been done outside the process yet
Untouched ==
    [container |-> "none", credentials |-> FALSE, contextFile |-> FALSE,
     pushed |-> <<>>, prRequests |-> 0, answers |-> <<>>, log |-> <<>>, faults |-> 0]

Resting ==
    /\ inputData = [e \in Executions |-> JUndef]
    /\ pc = [e \in Executions |-> "idle"]
    /\ budget = [e \in Executions |-> 0]
    /\ attemptIndex = [e \in Executions |-> 0]
    /\ inFlight = [e \in Executions |-> 0]
    /\ lastError = [e \in Executions |-> Undefined]
    /\ attemptLog = [e \in Executions |-> <<>>]
    /\ agentCalls = [e \in Executions |-> 0]
    /\ held = [e \in Executions |-> NoResult]
    /\ alerts = [e \in Executions |-> <<>>]
    /\ delivery = [e \in Executions |-> <<>>]
    /\ output = [e \in Executions |-> Pending]
    /\ raised = [e \in Executions |-> NoError]
    /\ call = NoCall
    /\ outcome = NoResult
    /\ cliToolMetrics = [callCount |-> 0]
    /\ env = Untouched

Run(kind, stage, data) ==
    [kind |-> kind, stage |-> stage, status |-> "running", data |-> data, error |-> NoError]

\* a direct call of withRetryAndAlerts
InitRetry ==
    /\ Resting
    /\ run = Run("call", "directCall", JUndef)
    /\ sink \in {{}, {"directCall"}}

NextRetry ==
    \/ RetryCall("directCall")
    \/ LoopTest("directCall")
    \/ AttemptReturns("directCall")
    \/ AttemptThrows("directCall")
    \/ RetryNotified("directCall")

SpecRetry == InitRetry /\ [][NextRetry]_vars

\* one step run on its own
InitStep ==
    /\ Resting
    /\ \E e \in FineSteps, in \in Inputs : run = Run("step", e, in)
    /\ sink \in {{}, {run.stage}}

NextStep ==
    \E e \in FineSteps :
        \/ StepStarts(e)
        \/ StartingNotified(e)
        \/ LoopTest(e)
        \/ AttemptReturns(e)
        \/ AttemptThrows(e)
        \/ RetryNotified(e)
        \/ CompletedNotified(e)
        \/ FailedNotified(e)

SpecStep == InitStep /\ [][NextStep]_vars

\* one call of a parsing function
InitParse ==
    /\ Resting
    /\ run = Run("parse", "none", JUndef)
    /\ sink = {}

NextParse == CallContextAgent \/ CallParseAgentJson

SpecParse == InitParse /\ [][NextParse]_vars


\* the inputs the full pipeline is run with: a repository given by its context
\* data and by its URL, one given by nothing but the project, one by a bad URL
PipelineInputs ==
    {JObj(<< P("contextData", JObj(<< P("owner", JStr(<<"o">>)), P("repo", JStr(<<"r">>)) >>)),
             P("repositoryUrl", JStr(<<"o", "/", "r">>)),
             P("projectId", JStr(<<"p", "1">>)) >>),
     JObj(<< P("projectId", JStr(<<"p", "2">>)) >>),
     JObj(<< P("contextData", JObj(<<>>)),
             P("repositoryUrl", JStr(<<"r", "e", "p", "o">>)),
             P("projectId", JStr(<<"p", "3">>)) >>)}

\* a run of the full pipeline
Init ==
    /\ Resting
    /\ \E in \in PipelineInputs : run = Run("pipeline", 1, in)
    /\ sink = {}

Next ==
    \/ \E e \in FineSteps :
          \/ StepStarts(e)
          \/ StartingNotified(e)
          \/ LoopTest(e)
          \/ AttemptReturns(e)
          \/ AttemptThrows(e)
          \/ RetryNotified(e)
          \/ CompletedNotified(e)
          \/ FailedNotified(e)
    \/ \E e \in CoarseSteps : Executes(e)
    \/ StepDone
    \/ Join
    \/ RunFails
    \/ RunCompletes

Spec == Init /\ [][Next]_vars

\* a run of the parallel phase, on either of two inputs
InitPhase ==
    /\ Resting
    /\ \E in \in {JObj(<< P("projectId", JStr(<<"p", "1">>)) >>),
                   JObj(<< P("projectId", JStr(<<"p", "2">>)) >>)} : run = Run("phase", 1, in)
    /\ sink = {}

NextPhase ==
    \/ \E e \in PhaseSteps : Executes(e)
    \/ StepDone
    \/ Join
    \/ RunFails
    \/ RunCompletes

\* the engine lets no step that can run, and no run that can end, wait forever
SpecPhase == InitPhase /\ [][NextPhase]_vars /\ WF_vars(NextPhase)

-----------------------------------------------------------------------------
(* Properties                                                              *)

Direct == "directCall"

\* every attempt of execution e so far has failed
AllFailed(e) == \A i \in 1..Len(attemptLog[e]) : ~attemptLog[e][i].ok

\* the last settled attempt of execution e
LastAttempt(e) == attemptLog[e][Len(attemptLog[e])]

\* error is what reaches the caller when thrown is rethrown: the same Error
\* object, or an Error with the message of a thrown value that is no Error
Rethrown(error, thrown) ==
    /\ error.isError
    /\ error.message = thrown.message
    /\ thrown.isError => error = thrown

\* C1: for every maxAttempts >= 1, while every attempt fails, withRetryAndAlerts
\* makes no more than maxAttempts attempts, goes on until it has made exactly
\* maxAttempts, and then throws the error of the last attempt to its caller.
C1_ExhaustedAfterMaxAttempts ==
    (pc[Direct] # "idle" /\ budget[Direct] >= 1 /\ AllFailed(Direct)) =>
        /\ Len(attemptLog[Direct]) + inFlight[Direct] <= budget[Direct]
        /\ pc[Direct] # "returned"
        /\ (pc[Direct] = "threw") <=> (Len(attemptLog[Direct]) = budget[Direct])
        /\ pc[Direct] = "threw" => Rethrown(raised[Direct], LastAttempt(Direct).error)

\* three attempts failed, the last with a thrown string, and the call threw
C1_Witness ==
    /\ pc[Direct] = "threw" /\ budget[Direct] = 3
    /\ Len(attemptLog[Direct]) = 3
    /\ ~LastAttempt(Direct).error.isError

\* C2: when the attempt fails k times (0 <= k < maxAttempts) and then succeeds,
\* withRetryAndAlerts returns the value of that attempt, has emitted exactly k
\* retry alerts (status in_progress, level warning, one per failed attempt), and
\* makes no attempt after the success.
C2_SuccessAfterKFailures ==
    LET n == Len(attemptLog[Direct])
    IN  /\ \A i \in 1..(n - 1) : ~attemptLog[Direct][i].ok
        /\ (n > 0 /\ attemptLog[Direct][n].ok) =>
              /\ pc[Direct] = "returned" /\ inFlight[Direct] = 0
              /\ n <= budget[Direct]
              /\ output[Direct] = attemptLog[Direct][n].v
              /\ Len(alerts[Direct]) = n - 1
              /\ \A i \in 1..(n - 1) :
                    /\ alerts[Direct][i].status = "in_progress"
                    /\ alerts[Direct][i].level = "warning"
                    /\ alerts[Direct][i].attempt = i
                    /\ alerts[Direct][i].subtitle = attemptLog[Direct][i].error.message

\* two failures, then the third attempt succeeded: two retry alerts
C2_Witness ==
    /\ pc[Direct] = "returned" /\ budget[Direct] = 3
    /\ Len(attemptLog[Direct]) = 3 /\ Len(alerts[Direct]) = 2

\* C10: the attempts of one withRetryAndAlerts call are sequential: never two
\* in flight, and the attempt in flight is the one after those that settled.
C10_AttemptsSequential ==
    \A e \in Executions :
        /\ inFlight[e] \in {0, 1}
        /\ inFlight[e] = 1 <=> pc[e] = "attempt"
        /\ pc[e] = "attempt" => Len(attemptLog[e]) = attemptIndex[e] - 1

\* the third attempt is in flight after two have settled
C10_Witness == inFlight[Direct] = 1 /\ Len(attemptLog[Direct]) = 2

\* C7: a retry alert whose delivery fails does not abort the retry loop: the
\* loop has moved on to the next attempt, and when the call throws, it throws
\* the error of the last attempt, made with the whole budget used.
C7_LostRetryAlertKeepsLoop ==
    \A i \in 1..Len(delivery[Direct]) :
        ~delivery[Direct][i] =>
            /\ attemptIndex[Direct] > i
            /\ pc[Direct] = "threw" =>
                  /\ Len(attemptLog[Direct]) = budget[Direct]
                  /\ Rethrown(raised[Direct], LastAttempt(Direct).error)

\* the first retry alert was lost and the second attempt was made all the same
C7_Witness ==
    /\ Len(delivery[Direct]) >= 1 /\ ~delivery[Direct][1]
    /\ Len(attemptLog[Direct]) >= 2

\* C6: callContextAgentForAnalysis and parseAgentJsonResponse return a value
\* only if it passes validation against the target schema, in the first tier
\* and in the recovery tier; otherwise they throw an error.
C6_ReturnsOnlyValidated ==
    call.fn # "none" =>
        IF outcome.ok
        THEN outcome.tier \in {"first", "recovery"} /\ Satisfies(SchemaOf[call.schema], outcome.v)
        ELSE outcome.error.isError /\ outcome.v = JUndef

\* a value returned by the recovery tier of callContextAgentForAnalysis
C6_Witness ==
    /\ call.fn = "callContextAgentForAnalysis"
    /\ outcome.ok /\ outcome.tier = "recovery"

\* C4: when all attempts of an analysis step have failed, the step does not
\* throw: it returns its fallback structure in an output that satisfies the
\* output schema of the step and carries containerId and projectId of the input.
C4_FallbackAfterExhaustion ==
    \A e \in AnalysisSteps :
        (Len(attemptLog[e]) = StepMaxAttempts /\ AllFailed(e)) =>
            /\ pc[e] \in {"failing", "returned"}
            /\ pc[e] = "returned" =>
                  /\ Satisfies(OutputSchema[e], output[e])
                  /\ Get(output[e], ResultKey[e]) = Fallback[e]
                  /\ Get(output[e], "containerId") = Get(inputData[e], "containerId")
                  /\ Get(output[e], "projectId") = Get(inputData[e], "projectId")

\* the build and deployment step returned after three failed attempts
C4_Witness ==
    /\ pc["analyzeBuildDeploymentStep"] = "returned"
    /\ Len(attemptLog["analyzeBuildDeploymentStep"]) = 3
    /\ AllFailed("analyzeBuildDeploymentStep")

\* C8: a lost alert changes no output: a step never throws because of an
\* alert, an analysis step whose attempt succeeded returns the value of that
\* attempt, and the gather start step returns its input.
C8_LostAlertsKeepOutput ==
    \A e \in FineSteps :
        /\ pc[e] # "threw"
        /\ (pc[e] = "returned" /\ e \in AnalysisSteps /\ ~AllFailed(e)) =>
              output[e] = stepOutput(e, inputData[e], LastAttempt(e).v)
        /\ (pc[e] = "returned" /\ e \notin AnalysisSteps) => output[e] = inputData[e]

\* the repository step returned the result of its first attempt although the
\* starting alert and the completed alert were both lost
C8_Witness ==
    /\ pc["analyzeRepositoryStep"] = "returned"
    /\ delivery["analyzeRepositoryStep"] = <<FALSE, FALSE>>
    /\ attemptLog["analyzeRepositoryStep"][1].ok

\* the stages of the workflow that are parallel phases
ParallelStages == {i \in 1..Len(Workflow) : Workflow[i].parallel}

\* a member of the phase at stage i has thrown
MemberThrew(i) == \E m \in Range(Workflow[i].steps) : pc[m] = "threw"

\* the step after the phase at stage i
StepAfter(i) == Workflow[i + 1].steps[1]

\* C3: the step after a parallel phase runs only when every member has
\* returned, and its input is the join record of all their outputs; when a
\* member has thrown, the step after the phase never runs, the run does not
\* get past the phase, and the run fails.
C3_NoPartialJoin ==
    /\ [](Composed =>
            \A i \in ParallelStages :
                /\ pc[StepAfter(i)] # "idle" =>
                      /\ \A m \in Range(Workflow[i].steps) : pc[m] = "returned"
                      /\ inputData[StepAfter(i)] =
                            JObj([j \in 1..Len(Workflow[i].steps) |->
                                     [k |-> Workflow[i].steps[j],
                                      v |-> output[Workflow[i].steps[j]]]])
                /\ MemberThrew(i) =>
                      /\ pc[StepAfter(i)] = "idle"
                      /\ run.stage = i /\ run.status # "success")
    /\ (Composed /\ \E i \in ParallelStages : MemberThrew(i)) ~> (run.status = "failed")

\* one member threw after the two others had returned: the run failed and the
\* step after the phase was never given a record
C3_Witness ==
    /\ run.kind = "phase" /\ run.status = "failed"
    /\ pc["memberA"] = "threw" /\ pc["memberB"] = "returned" /\ pc["memberC"] = "returned"
    /\ pc["afterJoin"] = "idle"

\* the steps that are documented to abort the run: push and PR creation
FatalSteps == {"prepareCommitAndPushStep", "createPullRequestStep"}

\* C5: a run of the pipeline that fails in a step other than push or PR
\* creation does not end with a thrown error: only those two steps make a run
\* fail, and a run that ends otherwise ends with an output that has a result
\* message and a success flag.
C5_FailedRunReportsOutput ==
    run.kind = "pipeline" =>
        /\ run.status = "failed" => \E e \in FatalSteps : pc[e] = "threw"
        /\ run.status = "success" =>
              Get(run.data, "result").t = "str" /\ Get(run.data, "success").t = "bool"

\* C9: every step that calls the agent does so inside withRetryAndAlerts: when
\* its agent call or the parsing of the answer has failed and the step has
\* fallen back or thrown, the agent was called as often as the budget allows.
C9_AgentCallsRetried ==
    \A e \in FineSteps \cup CoarseSteps :
        (agentCalls[e] > 0 /\ pc[e] \in {"returned", "threw"} /\ ~held[e].ok) =>
            /\ budget[e] = StepMaxAttempts
            /\ agentCalls[e] = budget[e]

\* every step one member of a parallel phase can take on its own
MemberStep(e) ==
    \/ StepStarts(e)
    \/ StartingNotified(e)
    \/ LoopTest(e)
    \/ AttemptReturns(e)
    \/ AttemptThrows(e)
    \/ RetryNotified(e)
    \/ CompletedNotified(e)
    \/ FailedNotified(e)

\* the member is inside withRetryAndAlerts after a failed attempt
BetweenAttempts(e) ==
    /\ pc[e] \in {"retrying", "loop", "attempt"}
    /\ Len(attemptLog[e]) > 0

\* the loop state withRetryAndAlerts keeps for execution e
LoopState(e) == <<budget[e], attemptIndex[e], lastError[e], attemptLog[e], inFlight[e]>>

\* C11: the members of the parallel analysis phase run their retry loops
\* independently: while one member is between failed attempts, every other
\* member that has not finished can take its next step at once, and a step
\* of one member leaves the loop state of the others as it was.
C11_MembersRetryIndependently ==
    /\ [](\A a \in AnalysisSteps, b \in AnalysisSteps :
             (a # b /\ BetweenAttempts(a) /\ pc[b] \notin {"returned", "threw"})
                 => ENABLED MemberStep(b))
    /\ [][\A a \in AnalysisSteps :
             pc'[a] = pc[a] =>
                 <<budget'[a], attemptIndex'[a], lastError'[a], attemptLog'[a], inFlight'[a]>>
                     = LoopState(a)]_vars

\* one member is still waiting for its first retry alert while another has
\* failed once, retried and returned its validated result
C11_Witness ==
    /\ run.kind = "pipeline"
    /\ pc["analyzeRepositoryStep"] = "retrying"
    /\ attemptIndex["analyzeRepositoryStep"] = 1
    /\ pc["analyzeCodebaseStep"] = "returned"
    /\ Len(attemptLog["analyzeCodebaseStep"]) = 2
    /\ held["analyzeCodebaseStep"].ok

\* the order the definition of the full pipeline fixes, phase by phase
PipelineOrder ==
    << {"dockerSetupStep"},
       {"githubCloneStep"},
       {"postProjectDescriptionStep", "postProjectStackStep"},
       {"dockerSaveContextStep"},
       {"contextGatheringStartStep"},
       {"analyzeRepositoryStep", "analyzeCodebaseStep", "analyzeBuildDeploymentStep"},
       {"synthesizeContextStep"},
       {"saveContextStep"},
       {"checkSavedPlanStep"},
       {"loadContextAndPlanStep"},
       {"generateTestCodeStep"},
       {"finalizeStep"},
       {"prepareCommitAndPushStep"},
       {"createPullRequestStep"},
       {"postPrUrlStep"},
       {"runCoverageStep"},
       {"postCoverageStep"},
       {"fullPipelineOutputNormalizer"} >>

\* the steps that come before position i of that order
Before(i) == UNION {PipelineOrder[j] : j \in 1..(i - 1)}

\* C12: every run of the full pipeline visits its steps in the one order the
\* definition fixes, whatever its input: a step has started only when every
\* step of every earlier position has completed, and a run that succeeds
\* has completed every step.
C12_FixedStepOrder ==
    run.kind = "pipeline" =>
        /\ \A i \in 1..Len(PipelineOrder) : \A s \in PipelineOrder[i] :
              pc[s] # "idle" => \A p \in Before(i) : pc[p] = "returned"
        /\ run.status = "success" =>
              \A i \in 1..Len(PipelineOrder) : \A s \in PipelineOrder[i] : pc[s] = "returned"

\* a run has got as far as the output normalizer, on the input that names no
\* repository
C12_Witness ==
    /\ run.kind = "pipeline" /\ run.status = "success"
    /\ pc["fullPipelineOutputNormalizer"] = "returned"
    /\ pc["dockerSetupStep"] = "returned"
    /\ ~HasKey(inputData["dockerSetupStep"], "contextData")

-----------------------------------------------------------------------------
(* The declared contracts of the steps                                     *)

\* schema.extend(fields): the fields of the schema, those given again replaced
extend(schema, fields) ==
    ZObject(SelectSeq(schema.fields,
                      LAMBDA f : \A i \in 1..Len(fields) : fields[i].k # f.k) \o fields)

ContextDataSchema ==
    ZObject(<< F("owner", ZOptional(ZString)), F("repo", ZOptional(ZString)),
               F("fullName", ZOptional(ZString)), F("full_name", ZOptional(ZString)),
               F("defaultBranch", ZOptional(ZString)), F("default_branch", ZOptional(ZString)),
               F("name", ZOptional(ZString)), F("description", ZOptional(ZString)),
               F("language", ZOptional(ZString)), F("topics", ZOptional(ZArray(ZString))),
               F("clone_url", ZOptional(ZString)), F("ssh_url", ZOptional(ZString)),
               F("html_url", ZOptional(ZString)) >>)

SourceModuleSchema ==
    ZObject(<< F("modulePath", ZString), F("sourceFiles", ZArray(ZString)),
               F("priority", ZEnum({"high", "medium", "low"})), F("language", ZString) >>)

RepoTestAnalysisSchema ==
    ZObject(<< F("sourceModules", ZArray(SourceModuleSchema)), F("testingFramework", ZString),
               F("testDirectory", ZString), F("totalFiles", ZNumber) >>)

FunctionTestSpecSchema ==
    ZObject(<< F("name", ZString), F("testCases", ZArray(ZString)) >>)

TestSpecificationSchema ==
    ZObject(<< F("sourceFile", ZString), F("functions", ZArray(FunctionTestSpecSchema)) >>)

TestFileResultSchema ==
    ZObject(<< F("sourceFile", ZString), F("testFile", ZString), F("functionsCount", ZNumber),
               F("testCasesCount", ZNumber), F("success", ZBoolean),
               F("error", ZOptional(ZString)) >>)

TestQualitySchema ==
    ZObject(<< F("syntaxValid", ZBoolean), F("followsBestPractices", ZBoolean),
               F("coverageScore", ZNumber) >>)

TestGenerationSummarySchema ==
    ZObject(<< F("totalSourceFiles", ZNumber), F("totalTestFiles", ZNumber),
               F("totalFunctions", ZNumber), F("totalTestCases", ZNumber),
               F("successfulFiles", ZNumber), F("failedFiles", ZNumber) >>)

TestGenerationResultSchema ==
    ZObject(<< F("testFiles", ZArray(TestFileResultSchema)),
               F("summary", TestGenerationSummarySchema), F("quality", TestQualitySchema) >>)

UnitTestResultSchema ==
    ZObject(<< F("result", ZString), F("success", ZBoolean), F("toolCallCount", ZNumber),
               F("testGeneration", TestGenerationResultSchema),
               F("recommendations", ZArray(ZString)) >>)

PipelineInputSchema ==
    ZObject(<< F("contextData", ZOptional(ContextDataSchema)),
               F("repositoryUrl", ZOptional(ZString)), F("projectId", ZString) >>)

TestDockerStepInputSchema ==
    ZObject(<< F("contextData", ZOptional(ContextDataSchema)),
               F("repositoryUrl", ZOptional(ZString)), F("projectId", ZString) >>)

TestDockerStepOutputSchema ==
    ZObject(<< F("result", ZString), F("success", ZBoolean), F("toolCallCount", ZNumber),
               F("containerId", ZString), F("contextData", ZOptional(ContextDataSchema)),
               F("repositoryUrl", ZOptional(ZString)), F("projectId", ZString) >>)

TestDockerGithubCloneStepOutputSchema ==
    extend(TestDockerStepOutputSchema, << F("repoPath", ZString) >>)

PostProjectStepInputSchema == TestDockerGithubCloneStepOutputSchema

PostProjectStepOutputSchema == TestDockerGithubCloneStepOutputSchema

ParallelPostProjectOutputSchema ==
    ZObject(<< F("postProjectDescriptionStep", PostProjectStepOutputSchema),
               F("postProjectStackStep", PostProjectStepOutputSchema) >>)

\* an output contract of the save step that leaves the container out
withoutContainerId ==
    ZObject(<< F("result", ZString), F("success", ZBoolean), F("toolCallCount", ZNumber),
               F("contextPath", ZString), F("repoPath", ZString), F("projectId", ZString) >>)

DockerSaveContextStepOutputSchema ==
    ZObject(<< F("result", ZString), F("success", ZBoolean), F("toolCallCount", ZNumber),
               F("containerId", ZString), F("contextPath", ZString), F("repoPath", ZString),
               F("projectId", ZString) >>)

ParallelAnalysisInputSchema ==
    ZObject(<< F("analyzeRepositoryStep", AnalyzeRepositoryOutputSchema),
               F("analyzeCodebaseStep", AnalyzeCodebaseOutputSchema),
               F("analyzeBuildDeploymentStep", AnalyzeBuildDeploymentOutputSchema) >>)

SynthesizeContextOutputSchema ==
    extend(RepoContextSchema, << F("containerId", ZString), F("projectId", ZString) >>)

SaveContextOutputSchema ==
    ZObject(<< F("containerId", ZString), F("contextPath", ZString),
               F("repoContext", RepoContextSchema), F("projectId", ZString) >>)

CheckSavedPlanStepOutputSchema ==
    ZObject(<< F("containerId", ZString), F("contextPath", ZString),
               F("repoAnalysis", ZOptional(RepoTestAnalysisSchema)),
               F("testSpecs", ZOptional(ZArray(TestSpecificationSchema))),
               F("skipToGeneration", ZBoolean), F("projectId", ZString) >>)

LoadContextAndPlanStepOutputSchema ==
    ZObject(<< F("containerId", ZString), F("contextPath", ZString),
               F("repoAnalysis", RepoTestAnalysisSchema),
               F("testSpecs", ZArray(TestSpecificationSchema)), F("projectId", ZString) >>)

GenerateTestCodeStepOutputSchema ==
    ZObject(<< F("containerId", ZString), F("contextPath", ZOptional(ZString)),
               F("testGeneration", TestGenerationResultSchema),
               F("repoAnalysis", RepoTestAnalysisSchema),
               F("testSpecs", ZArray(TestSpecificationSchema)), F("projectId", ZString) >>)

FinalizeStepOutputSchema ==
    extend(UnitTestResultSchema, << F("projectId", ZString), F("containerId", ZString),
                                    F("contextPath", ZOptional(ZString)) >>)

\* what travels with the plan through the github pr workflow
carried ==
    << F("testGeneration", ZOptional(TestGenerationResultSchema)),
       F("repoAnalysis", ZOptional(RepoTestAnalysisSchema)),
       F("testSpecs", ZOptional(ZArray(TestSpecificationSchema))) >>

\* the optional summary fields the later steps hand on
summary ==
    << F("result", ZOptional(ZString)), F("success", ZOptional(ZBoolean)),
       F("toolCallCount", ZOptional(ZNumber)), F("contextPath", ZOptional(ZString)) >>

PrepareCommitInputSchema ==
    ZObject(<< F("containerId", ZString), F("repoPath", ZOptional(ZString)),
               F("projectId", ZString) >> \o carried \o summary)

PrepareCommitOutputSchema ==
    ZObject(<< F("containerId", ZString), F("repoPath", ZString), F("branchName", ZString),
               F("baseBranch", ZString), F("repoOwner", ZString), F("repoName", ZString),
               F("commitMessage", ZString), F("projectId", ZString) >> \o carried \o summary)

CreatePullRequestInputSchema == PrepareCommitOutputSchema

CreatePullRequestOutputSchema ==
    ZObject(<< F("prUrl", ZString), F("prNumber", ZOptional(ZNumber)), F("projectId", ZString),
               F("containerId", ZString) >> \o summary)

PostPrUrlInputSchema ==
    ZObject(<< F("prUrl", ZString), F("prNumber", ZOptional(ZNumber)), F("projectId", ZString),
               F("containerId", ZString) >> \o summary)

CoverageInputSchema ==
    ZObject(<< F("containerId", ZString), F("projectId", ZString),
               F("repoPath", ZOptional(ZString)), F("prUrl", ZOptional(ZString)),
               F("contextPath", ZOptional(ZString)), F("result", ZOptional(ZString)),
               F("success", ZOptional(ZBoolean)), F("toolCallCount", ZOptional(ZNumber)) >>)

CoverageOutputSchema ==
    ZObject(<< F("containerId", ZString), F("projectId", ZString), F("coverage", ZNumber),
               F("repoPath", ZString), F("language", ZString), F("framework", ZString),
               F("method", ZString), F("stats", CoverageStatsSchema), F("files", ZNumber),
               F("prUrl", ZOptional(ZString)), F("contextPath", ZOptional(ZString)),
               F("result", ZOptional(ZString)), F("success", ZBoolean),
               F("toolCallCount", ZOptional(ZNumber)) >>)

PostTestCoverageStepOutputSchema ==
    ZObject(<< F("containerId", ZString), F("projectId", ZString), F("coverage", ZNumber),
               F("repoPath", ZString), F("language", ZString), F("framework", ZString),
               F("method", ZString), F("stats", CoverageStatsSchema), F("files", ZNumber),
               F("prUrl", ZOptional(ZString)), F("contextPath", ZOptional(ZString)),
               F("result", ZOptional(ZString)), F("success", ZBoolean),
               F("toolCallCount", ZOptional(ZNumber)) >>)

PipelineOutputSchema ==
    ZObject(<< F("result", ZString), F("success", ZBoolean), F("toolCallCount", ZNumber),
               F("containerId", ZString), F("contextPath", ZOptional(ZString)),
               F("projectId", ZString), F("prUrl", ZString) >>)


\* the input the first step of the generation workflow declares: the container,
\* the project and the path of the saved context
CheckSavedPlanInputSchema ==
    ZObject(<< F("containerId", ZString), F("contextPath", ZOptional(ZString)),
               F("projectId", ZString) >>)

\* the input schema each step declares
InputSchemaOf ==
    [dockerSetupStep |-> TestDockerStepInputSchema,
     githubCloneStep |-> TestDockerStepOutputSchema,
     postProjectDescriptionStep |-> PostProjectStepInputSchema,
     postProjectStackStep |-> PostProjectStepInputSchema,
     dockerSaveContextStep |-> ParallelPostProjectOutputSchema,
     contextGatheringStartStep |-> WorkflowInputSchema,
     analyzeRepositoryStep |-> WorkflowInputSchema,
     analyzeCodebaseStep |-> WorkflowInputSchema,
     analyzeBuildDeploymentStep |-> WorkflowInputSchema,
     synthesizeContextStep |-> ParallelAnalysisInputSchema,
     saveContextStep |-> SynthesizeContextOutputSchema,
     checkSavedPlanStep |-> CheckSavedPlanInputSchema,
     loadContextAndPlanStep |-> CheckSavedPlanStepOutputSchema,
     generateTestCodeStep |-> LoadContextAndPlanStepOutputSchema,
     finalizeStep |-> GenerateTestCodeStepOutputSchema,
     prepareCommitAndPushStep |-> PrepareCommitInputSchema,
     createPullRequestStep |-> CreatePullRequestInputSchema,
     postPrUrlStep |-> PostPrUrlInputSchema,
     runCoverageStep |-> CoverageInputSchema,
     postCoverageStep |-> CoverageOutputSchema,
     fullPipelineOutputNormalizer |-> PostTestCoverageStepOutputSchema]

\* the output schema each step declares
OutputSchemaOf ==
    [dockerSetupStep |-> TestDockerStepOutputSchema,
     githubCloneStep |-> TestDockerGithubCloneStepOutputSchema,
     postProjectDescriptionStep |-> PostProjectStepOutputSchema,
     postProjectStackStep |-> PostProjectStepOutputSchema,
     dockerSaveContextStep |-> DockerSaveContextStepOutputSchema,
     contextGatheringStartStep |-> WorkflowInputSchema,
     analyzeRepositoryStep |-> AnalyzeRepositoryOutputSchema,
     analyzeCodebaseStep |-> AnalyzeCodebaseOutputSchema,
     analyzeBuildDeploymentStep |-> AnalyzeBuildDeploymentOutputSchema,
     synthesizeContextStep |-> SynthesizeContextOutputSchema,
     saveContextStep |-> SaveContextOutputSchema,
     checkSavedPlanStep |-> CheckSavedPlanStepOutputSchema,
     loadContextAndPlanStep |-> LoadContextAndPlanStepOutputSchema,
     generateTestCodeStep |-> GenerateTestCodeStepOutputSchema,
     finalizeStep |-> FinalizeStepOutputSchema,
     prepareCommitAndPushStep |-> PrepareCommitOutputSchema,
     createPullRequestStep |-> CreatePullRequestOutputSchema,
     postPrUrlStep |-> PostPrUrlInputSchema,
     runCoverageStep |-> CoverageOutputSchema,
     postCoverageStep |-> CoverageOutputSchema,
     fullPipelineOutputNormalizer |-> PipelineOutputSchema]

\* whether the schema accepts a field that is missing
acceptsMissing(schema) == schema.z \in {"optional", "default"}

\* the field of an object schema under key k, a missing field being one that
\* is never there
declared(schema, k) ==
    LET at == {i \in 1..Len(schema.fields) : schema.fields[i].k = k}
    IN  IF at = {} THEN [z |-> "never"] ELSE schema.fields[CHOOSE i \in at : TRUE].s

RECURSIVE satisfiedBy(_, _)
\* structural compatibility: every value the producing schema lets through is
\* one the consuming schema accepts
satisfiedBy(consumer, producer) ==
    IF producer.z = "never" THEN acceptsMissing(consumer)
    ELSE IF consumer.z = "optional"
    THEN satisfiedBy(consumer.inner, IF producer.z = "optional" THEN producer.inner ELSE producer)
    ELSE IF consumer.z = "default"
    THEN satisfiedBy(consumer.inner, IF producer.z = "optional" THEN producer.inner ELSE producer)
    ELSE IF producer.z = "default" THEN satisfiedBy(consumer, producer.inner)
    ELSE IF consumer.z = "nullable"
    THEN satisfiedBy(consumer.inner, IF producer.z = "nullable" THEN producer.inner ELSE producer)
    ELSE IF consumer.z # producer.z THEN FALSE
    ELSE IF consumer.z = "enum" THEN producer.vals \subseteq consumer.vals
    ELSE IF consumer.z \in {"array", "record"} THEN satisfiedBy(consumer.inner, producer.inner)
    ELSE IF consumer.z = "object"
    THEN \A i \in 1..Len(consumer.fields) :
            satisfiedBy(consumer.fields[i].s, declared(producer, consumer.fields[i].k))
    ELSE TRUE

\* what the stage before stage i is declared to hand on: the input of the
\* pipeline, the output of a step, or the outputs of the members of a parallel
\* stage under their step ids
Produced(i) ==
    IF i = 1 THEN PipelineInputSchema
    ELSE LET st == fullPipelineWorkflow[i - 1]
         IN  IF st.parallel
             THEN ZObject([j \in 1..Len(st.steps) |-> F(st.steps[j], OutputSchemaOf[st.steps[j]])])
             ELSE OutputSchemaOf[st.steps[1]]

\* every boundary of the composition is structurally compatible
BoundariesCompatible ==
    \A i \in 1..Len(fullPipelineWorkflow) : \A c \in Range(fullPipelineWorkflow[i].steps) :
        satisfiedBy(InputSchemaOf[c], Produced(i))

\* the steps of the stage the run is at
AtWork == IF AtStage THEN Range(Workflow[run.stage].steps) ELSE {}

\* C13: at every boundary of the pipeline the consuming step's declared input
\* is satisfied by what the producing stage declares as its output, and in
\* every run each step is entered with a value its input schema accepts and
\* returns a value its output schema accepts (looked at while the run is at
\* the step's stage: neither value changes afterwards).
C13_BoundariesSatisfied ==
    run.kind = "pipeline" =>
        /\ BoundariesCompatible
        /\ \A e \in AtWork :
              /\ pc[e] # "idle" => Satisfies(InputSchemaOf[e], inputData[e])
              /\ pc[e] = "returned" => Satisfies(OutputSchemaOf[e], output[e])

\* the run has crossed the boundary from the docker phase into context
\* gathering with a saved context, and has come to its last step
C13_Witness ==
    /\ run.kind = "pipeline"
    /\ pc["contextGatheringStartStep"] = "returned"
    /\ Get(inputData["contextGatheringStartStep"], "success") = JBool(TRUE)
    /\ pc["fullPipelineOutputNormalizer"] = "returned"

-----------------------------------------------------------------------------
(* Runs in which every external call returns                               *)

\* every agent call, command, request and alert that is awaited settles, and
\* the engine goes on whenever a step can run or the run can end
SpecLive == Init /\ [][Next]_vars /\ WF_vars(Next)

\* the run has ended: with an output or with an unrecovered error
Terminal == run.status \in {"success", "failed"}

\* C14: when every external call returns, every started run of the pipeline
\* eventually ends, with an output or with an unrecovered error, and no retry
\* loop goes round more often than its budget allows.
C14_RunsTerminate ==
    /\ <>Terminal
    /\ [](\A e \in AnalysisSteps :
             /\ Len(attemptLog[e]) <= StepMaxAttempts
             /\ attemptIndex[e] <= StepMaxAttempts)

\* a run has ended with an output although one analysis step used up its
\* whole budget and fell back
C14_Witness ==
    /\ run.kind = "pipeline" /\ run.status = "success"
    /\ Len(attemptLog["analyzeCodebaseStep"]) = StepMaxAttempts
    /\ ~held["analyzeCodebaseStep"].ok


-----------------------------------------------------------------------------
(* The gate on the extracted text                                          *)

\* the raw response text the parsing function of the call was given
rawText == IF call.fn = "callContextAgentForAnalysis"
           THEN textOf(AgentText(ResponseText[call.response]))
           ELSE ResponseText[call.response]

\* the extracted text is too short, the placeholder, or holds no brace
degenerate(jsonText) ==
    Len(jsonText) < 10 \/ jsonText = <<".", ".", ".">> \/ ~includes(jsonText, <<"{">>)

\* the extraction-quality error, with the preview of the raw response
ExtractionQuality(text) ==
    Error("Error", "Failed to extract valid JSON from agent response. Preview: "
                       \o Str(substring(text, 0, 500)) \o "...")

\* C15: when the text extracted from a response is shorter than 10 characters,
\* is the literal "..." or contains no '{', the parsing pipeline fails with the
\* extraction-quality error, which carries a preview of the raw response,
\* before any JSON parse is attempted.
C15_DegenerateTextRejected ==
    (run.kind = "parse" /\ call.fn # "none" /\ degenerate(extractJsonFromText(rawText))) =>
        /\ ~outcome.ok
        /\ outcome.tier = "gate"
        /\ outcome.error = ExtractionQuality(rawText)

\* what holds of parseAgentJsonResponse alone
GateOfParseAgentJson ==
    (run.kind = "parse" /\ call.fn = "parseAgentJsonResponse"
     /\ degenerate(extractJsonFromText(rawText))) =>
        /\ ~outcome.ok
        /\ outcome.tier = "gate"
        /\ outcome.error = ExtractionQuality(rawText)

\* parseAgentJsonResponse has rejected the placeholder at its gate
GateReached ==
    /\ call.fn = "parseAgentJsonResponse" /\ call.response = "dots"
    /\ outcome.tier = "gate"


-----------------------------------------------------------------------------
(* Enum drift in a repository structure                                    *)

\* callContextAgentForAnalysis was given response r to parse as a repository structure
ParsedAsRepository(r) ==
    /\ run.kind = "parse" /\ call.fn = "callContextAgentForAnalysis"
    /\ call.response = r /\ call.schema = "repository"

\* the value returned has type "monorepo" and a first package of type "library"
MonorepoWithLibrary ==
    /\ outcome.ok
    /\ Get(outcome.v, "type") = JStr(S_monorepo)
    /\ Get(Get(outcome.v, "structure"), "packages").t = "arr"
    /\ Len(Get(Get(outcome.v, "structure"), "packages").a) >= 1
    /\ Get(Get(Get(outcome.v, "structure"), "packages").a[1], "type") = JStr(S_library)

\* the statement as the specification has it: the example
\* {"type":"Mono", "structure":{"packages":[{"type":"Library"}]}} is parsed
\* against the repository schema with success
C16_MonoExampleParses == ParsedAsRepository("mono") => MonorepoWithLibrary

\* C16: a repository structure that carries every field the schema requires,
\* with the type written " Mono Repo" and a package type written "Library",
\* is parsed with success on the first tier and comes back with type
\* "monorepo" and packages[0].type "library"; the example without gitStatus,
\* rootPath and languages is rejected by the schema.
C16_DriftNormalized ==
    /\ ParsedAsRepository("repo_drift") => (MonorepoWithLibrary /\ outcome.tier = "first")
    /\ ParsedAsRepository("mono") => ~outcome.ok

\* the drifting repository structure was parsed and returned
C16_Witness == ParsedAsRepository("repo_drift") /\ outcome.ok


-----------------------------------------------------------------------------
(* The error raised when both tiers fail                                   *)

\* the text the call extracted from the response
jsonTextOfCall == extractJsonFromText(rawText)

\* what the first tier and the recovery tier of the call came to
firstTier ==
    IF call.fn = "callContextAgentForAnalysis"
    THEN parseNormalizeValidate(jsonTextOfCall, SchemaOf[call.schema])
    ELSE parseValidate(jsonTextOfCall, SchemaOf[call.schema])

recoveryTier ==
    IF call.fn = "callContextAgentForAnalysis"
    THEN contextRecoveryTier(jsonTextOfCall, SchemaOf[call.schema])
    ELSE agentRecoveryTier(jsonTextOfCall, SchemaOf[call.schema])

\* the call went through both tiers and both failed
BothTiersFailed ==
    /\ run.kind = "parse" /\ call.fn # "none" /\ call.attemptRecovery
    /\ outcome.tier = "recovery" /\ ~outcome.ok

\* part occurs in message
Contains(message, part) ==
    \E i \in 1..(Len(message) - Len(part) + 1) : SubSeq(message, i, i + Len(part) - 1) = part

\* C17: when the first parse tier and the recovery tier both fail, the error
\* raised carries the original error message and the recovery error message,
\* together with a bounded preview of the offending text.
C17_ErrorCarriesBothMessages ==
    BothTiersFailed =>
        /\ Contains(outcome.error.message, firstTier.error.message)
        /\ Contains(outcome.error.message, recoveryTier.error.message)
        /\ Contains(outcome.error.message, Str(substring(jsonTextOfCall, 0, 500)))

\* what the error raised does carry: the message of the first tier
OriginalMessageCarried ==
    BothTiersFailed =>
        /\ ~firstTier.ok /\ ~recoveryTier.ok
        /\ Contains(outcome.error.message, firstTier.error.message)

\* both tiers failed, each with an error of its own
TiersFailedDifferently ==
    BothTiersFailed /\ firstTier.error.message # recoveryTier.error.message


-----------------------------------------------------------------------------
(* extractJsonFromText on texts put together from parts                    *)

\* the characters of a string
Chars(str) == [i \in 1..Len(str) |-> SubSeq(str, i, i)]

\* longest text enumerated character by character
MaxPlain == 3

RECURSIVE SeqsUpTo(_, _)
SeqsUpTo(S, n) ==
    IF n = 0 THEN {<<>>}
    ELSE SeqsUpTo(S, n - 1) \cup {Append(t, c) : t \in SeqsUpTo(S, n - 1), c \in S}

\* texts without a fenced part: every text of up to MaxPlain characters over
\* a small alphabet, and some phrases
PlainTexts ==
    SeqsUpTo({"{", "}", "a", " "}, MaxPlain)
        \cup {Chars("no json here"), Chars("JSON: {\"a\":1,\"b\":2}"),
              Chars("Result: {\"type\":\"x\"} and {more}"), Chars("} JSON: { nothing closes"),
              Chars("Here is the JSON: {"), Fence \o Chars("json {\"a\":1,\"b\":22}"),
              Chars("}}} Output: {{{")}

\* what may stand before, in and after a fenced block
Pres == {<<>>, Chars("Hi: "), Chars("{p} "), Fence \o Chars("x") \o Fence \o Chars(" ")}
Opens == {Fence, Fence \o Chars("json"), Fence \o Chars("json\n"), Fence \o Chars(" \n")}
Bodies == {<<>>, Chars("{}"), Chars("{\"a\":1,\"b\":2}"), Chars("hello world!"),
           Chars("{\"a\": {\"b\": 2}}"), Chars("12345 7890")}
Closes == {Fence, Chars("\n") \o Fence, Chars("  ") \o Fence}
Posts == {<<>>, Chars(" }"), Chars(" {q}"), Chars(" done.")}

Parts(pre, open, body, close, post) ==
    JObj(<< P("pre", JStr(pre)), P("open", JStr(open)), P("body", JStr(body)),
            P("close", JStr(close)), P("post", JStr(post)) >>)

\* the texts extractJsonFromText is called on, by their parts
ExtractInputs ==
    {Parts(t, <<>>, <<>>, <<>>, <<>>) : t \in PlainTexts}
        \cup {Parts(pre, open, body, close, post) :
                 pre \in Pres, open \in Opens, body \in Bodies, close \in Closes, post \in Posts}

Part(k) == Get(run.data, k).s

\* the text of the run
ExtractText == Part("pre") \o Part("open") \o Part("body") \o Part("close") \o Part("post")

InitExtract ==
    /\ Resting
    /\ \E parts \in ExtractInputs : run = Run("extract", "none", parts)
    /\ sink = {}

\* extractJsonFromText applied to the text
CallExtract ==
    /\ run.kind = "extract" /\ call.fn = "none"
    /\ call' = [NoCall EXCEPT !.fn = "extractJsonFromText"]
    /\ outcome' = Returned(JStr(extractJsonFromText(ExtractText)), "none")
    /\ UNCHANGED <<run, inputData, pc, budget, attemptIndex, inFlight, lastError,
                   attemptLog, agentCalls, held, alerts, delivery, sink, output, raised,
                   cliToolMetrics, env>>

NextExtract == CallExtract

SpecExtract == InitExtract /\ [][NextExtract]_vars

Extracted == run.kind = "extract" /\ call.fn = "extractJsonFromText"

\* the text has a fenced block put there as such: its body, trimmed, is Part("body")
HasBlock == Part("open") # <<>>

\* no fence stands before the block
BlockComesFirst == ~includes(Part("pre"), Fence)

\* C18: for every text containing a fenced code block (optionally tagged json)
\* whose trimmed body is longer than 10 characters, extractJsonFromText
\* returns exactly that trimmed body, whatever braces stand elsewhere in the text.
C18_FencedBlockWins ==
    (Extracted /\ HasBlock /\ Len(Part("body")) > 10) =>
        (outcome.ok /\ outcome.v = JStr(Part("body")))

\* what holds: the first fenced block of the text is the one that counts
FirstFencedBlockWins ==
    (Extracted /\ HasBlock /\ BlockComesFirst /\ Len(Part("body")) > 10) =>
        (outcome.ok /\ outcome.v = JStr(Part("body")))

\* a first block with a long body was extracted from a text with braces around it
FirstBlockExtracted ==
    /\ Extracted /\ HasBlock /\ BlockComesFirst /\ Len(Part("body")) > 10
    /\ Part("pre") = Chars("{p} ") /\ Part("post") = Chars(" {q}")


\* where a fence stands in the text
FencePositions(text) == {i \in 1..Len(text) : StartsAt(text, i, Fence)}

\* no fence of the text is followed by another one
NoFencedBlock(text) == ~\E i, j \in FencePositions(text) : j >= i + 3

\* the position of the first '{' and of the last '}' of the text, 0 if there is none
FirstOpen(text) == least({i \in 1..Len(text) : text[i] = "{"})
LastClose(text) == greatest({i \in 1..Len(text) : text[i] = "}"})

\* a '}' occurs after the first '{'
ClosesAfterOpen(text) == FirstOpen(text) # 0 /\ LastClose(text) > FirstOpen(text)

\* C19: for every text with no fenced block in which a '}' occurs after the
\* first '{', extractJsonFromText returns the substring from the first '{' to
\* the last '}' inclusive.
C19_BraceSpanReturned ==
    (Extracted /\ NoFencedBlock(ExtractText) /\ ClosesAfterOpen(ExtractText)) =>
        /\ outcome.ok
        /\ outcome.v = JStr(SubSeq(ExtractText, FirstOpen(ExtractText), LastClose(ExtractText)))

\* the span from the first '{' to the last '}' was cut out of a text with two objects
C19_Witness ==
    /\ Extracted /\ NoFencedBlock(ExtractText)
    /\ ExtractText = Chars("Result: {\"type\":\"x\"} and {more}")
    /\ outcome.v = JStr(Chars("{\"type\":\"x\"} and {more}"))

\* where the body of the first fenced block begins: after the fence and a json tag
BodyStart(text, i) == IF StartsAt(text, i + 3, Chars("json")) THEN i + 7 ELSE i + 3

\* the body of the first fenced block, up to the next fence
FirstBlockBody(text) ==
    between(text, BodyStart(text, least(FencePositions(text))),
            least({k \in FencePositions(text) :
                      k >= BodyStart(text, least(FencePositions(text)))}) - 1)

\* the text has a fenced block whose trimmed body is longer than 10 characters
LongFencedBlock(text) == ~NoFencedBlock(text) /\ Len(trim(FirstBlockBody(text))) > 10

\* C20: for every text that has neither a fenced block with a trimmed body
\* longer than 10 characters nor a '}' after its first '{', extractJsonFromText
\* raises nothing and returns the text unchanged, and none of the fallback
\* phrase patterns finds anything in it.
C20_TextReturnedUnchanged ==
    (Extracted /\ ~LongFencedBlock(ExtractText) /\ ~ClosesAfterOpen(ExtractText)) =>
        /\ outcome.ok
        /\ outcome.v = JStr(ExtractText)
        /\ \A k \in 1..Len(patterns(ExtractText)) : ~patterns(ExtractText)[k].found

\* a text with a '}' before its only '{' and a phrase of the fallback patterns
\* came back unchanged
C20_Witness ==
    /\ Extracted
    /\ ExtractText = Chars("} JSON: { nothing closes")
    /\ outcome.v = JStr(ExtractText)

\* a text with a short fenced block and no braces came back unchanged
ShortBlockUnchanged ==
    /\ Extracted /\ ~NoFencedBlock(ExtractText) /\ ~LongFencedBlock(ExtractText)
    /\ FirstOpen(ExtractText) = 0 /\ outcome.v = JStr(ExtractText)


-----------------------------------------------------------------------------
(* attemptJsonRecovery on bounded texts                                    *)

\* longest text given to attemptJsonRecovery character by character
MaxRecover == 4

\* every text of up to MaxRecover characters over braces, a bracket, a comma
\* and a blank, and the examples of truncated and comma-ridden objects
RecoveryInputs ==
    SeqsUpTo({"{", "}", "]", ",", " "}, MaxRecover)
        \cup {Chars("{\"a\":{\"b\":1}"), Chars("{\"a\":1,}"), Chars("{\"a\":[1,2, ],\"b\":{\"c\":{"),
              Chars("}}{")}

InitRecover ==
    /\ Resting
    /\ \E t \in RecoveryInputs : run = Run("recover", "none", JStr(t))
    /\ sink = {}

\* attemptJsonRecovery applied to the text
CallRecovery ==
    /\ run.kind = "recover" /\ call.fn = "none"
    /\ call' = [NoCall EXCEPT !.fn = "attemptJsonRecovery"]
    /\ outcome' = Returned(JStr(attemptJsonRecovery(run.data.s)), "none")
    /\ UNCHANGED <<run, inputData, pc, budget, attemptIndex, inFlight, lastError,
                   attemptLog, agentCalls, held, alerts, delivery, sink, output, raised,
                   cliToolMetrics, env>>

NextRecover == CallRecovery

SpecRecover == InitRecover /\ [][NextRecover]_vars

Recovered == run.kind = "recover" /\ call.fn = "attemptJsonRecovery"

\* how many closing braces the text lacks
Missing(s) == IF Count(s, "{") > Count(s, "}") THEN Count(s, "{") - Count(s, "}") ELSE 0

\* no comma of the text stands before a closing bracket
NoTrailingComma(s) ==
    ~\E p \in 1..Len(s) :
        s[p] = "," /\ \E q \in (p + 1)..Len(s) :
                         s[q] \in {"}", "]"} /\ \A k \in (p + 1)..(q - 1) : s[k] \in WS

\* C21: for every string s, attemptJsonRecovery appends exactly (count of '{'
\* minus count of '}') closing braces at the end when that difference is
\* positive and nothing otherwise, so its result never has more '{' than '}';
\* for {"a":{"b":1} it appends exactly one '}'.
C21_MissingBracesAppended ==
    Recovered =>
        /\ outcome.ok
        /\ Count(outcome.v.s, "{") = Count(run.data.s, "{")
        /\ Count(outcome.v.s, "}") = Count(run.data.s, "}") + Missing(run.data.s)
        /\ \A i \in (Len(outcome.v.s) - Missing(run.data.s) + 1)..Len(outcome.v.s) :
              outcome.v.s[i] = "}"
        /\ NoTrailingComma(run.data.s) =>
              outcome.v.s = run.data.s \o Repeat("}", Missing(run.data.s))
        /\ Count(outcome.v.s, "{") <= Count(outcome.v.s, "}")
        /\ run.data.s = Chars("{\"a\":{\"b\":1}") => outcome.v.s = Chars("{\"a\":{\"b\":1}}")

\* a text lacking two closing braces, with a trailing comma, was repaired
C21_Witness ==
    /\ Recovered
    /\ run.data.s = Chars("{\"a\":[1,2, ],\"b\":{\"c\":{")
    /\ outcome.v.s = Chars("{\"a\":[1,2 ],\"b\":{\"c\":{}}}")


-----------------------------------------------------------------------------
(* normalizeAgentJsonForSchemas on values that already satisfy a schema    *)

\* schema.parse of the response of the model that satisfies schema k
CanonicalOf(k, r) ==
    zparse(SchemaOf[k], JSONparse(extractJsonFromText(ResponseText[r])).v, "$").v

\* every package that PackageInfoSchema accepts, over two paths (one empty),
\* the null and a string name, every package type, the null and a string language
CanonicalPackages ==
    {JObj(<< P("path", JStr(path)), P("name", name), P("type", JStr(Chars(type))),
             P("language", language) >>) :
        path \in {<<>>, Chars("packages/api")}, name \in {JNull, JStr(Chars("api"))},
        type \in allowedPackageTypes, language \in {JNull, JStr(Chars("typescript"))}}

\* the package lists of a varied repository: none, each single package, and two pairs
PackageLists ==
    {<<>>} \cup {<<p>> : p \in CanonicalPackages}
           \cup {<<p, q>> : p \in {x \in CanonicalPackages : x.kv[3].v.s = S_library},
                            q \in {x \in CanonicalPackages : x.kv[1].v.s = <<>>
                                                               /\ x.kv[2].v.t = "null"}}

\* a repository with another type and other packages
variedRepository(repo, type, packages) ==
    Put(Put(repo, "type", JStr(Chars(type))), "structure",
        Put(Get(repo, "structure"), "packages", JArr(packages)))

\* a codebase analysis (or what holds one) with another documentation record
variedDocumentation(holder, hasReadme, hasApiDocs, codeComments) ==
    Put(holder, "codeQuality",
        Put(Get(holder, "codeQuality"), "documentation",
            JObj(<< P("hasReadme", JBool(hasReadme)), P("hasApiDocs", JBool(hasApiDocs)),
                    P("codeComments", JStr(Chars(codeComments))) >>)))

CanonicalRepositories ==
    {variedRepository(repo, type, packages) :
        repo \in {CanonicalOf("repository", "repo_fenced")},
        type \in allowedRepoTypes, packages \in PackageLists}

CanonicalCodebases ==
    {variedDocumentation(codebase, hasReadme, hasApiDocs, codeComments) :
        codebase \in {CanonicalOf("codebase", "codebase")},
        hasReadme \in BOOLEAN, hasApiDocs \in BOOLEAN, codeComments \in allowedComments}

CanonicalContexts ==
    {Put(Put(context, "repository", repository), "codebase", codebase) :
        context \in {CanonicalOf("context", "context")},
        repository \in {variedRepository(repo, type, packages) :
                           repo \in {CanonicalOf("repository", "repo_fenced")},
                           type \in allowedRepoTypes,
                           packages \in {<<>>} \cup {<<p>> : p \in {x \in CanonicalPackages :
                                                                   x.kv[4].v.t = "null"}}},
        codebase \in {x \in CanonicalCodebases :
                         Get(Get(Get(x, "codeQuality"), "documentation"), "hasReadme").b}}

\* the values normalizeAgentJsonForSchemas is given
NormalizeInputs ==
    CanonicalRepositories \cup CanonicalCodebases \cup CanonicalContexts
        \cup {CanonicalOf("buildDeploy", "build")}

InitNormalize ==
    /\ Resting
    /\ \E v \in NormalizeInputs : run = Run("normalize", "none", v)
    /\ sink = {}

\* schema.parse(normalizeAgentJsonForSchemas(v)) for a value v that schema.parse
\* accepts and hands back as it is
CallNormalize ==
    /\ run.kind = "normalize" /\ call.fn = "none"
    /\ \E k \in SchemaIds :
          /\ \E r \in {zparse(SchemaOf[k], run.data, "$")} : r.ok /\ r.v = run.data
          /\ call' = [NoCall EXCEPT !.fn = "normalizeAgentJsonForSchemas", !.schema = k]
          /\ outcome' = Once(LAMBDA r : IF r.ok THEN Returned(r.v, "first")
                                         ELSE Threw(r.error, "first"),
                             zparse(SchemaOf[k], normalizeAgentJsonForSchemas(run.data), "$"))
    /\ UNCHANGED <<run, inputData, pc, budget, attemptIndex, inFlight, lastError,
                   attemptLog, agentCalls, held, alerts, delivery, sink, output, raised,
                   cliToolMetrics, env>>

NextNormalize == CallNormalize

SpecNormalize == InitNormalize /\ [][NextNormalize]_vars

Normalized == run.kind = "normalize" /\ call.fn = "normalizeAgentJsonForSchemas"

\* C22: a value that already satisfies its target schema comes back from
\* normalization and validation as it was, and normalization alone changes
\* none of its fields
C22_CanonicalUnchanged ==
    Normalized =>
        /\ outcome.ok
        /\ outcome.v = run.data
        /\ normalizeAgentJsonForSchemas(run.data) = run.data

\* a monorepo context whose one package has an empty path and null name and
\* language went through normalization and validation
C22_Witness ==
    /\ Normalized /\ call.schema = "context" /\ outcome.ok
    /\ \E packages \in {Get(Get(Get(run.data, "repository"), "structure"), "packages")} :
          /\ Len(packages.a) = 1
          /\ Get(packages.a[1], "path").s = <<>>
          /\ Get(packages.a[1], "name").t = "null"
    /\ Get(Get(run.data, "repository"), "type").s = S_monorepo


-----------------------------------------------------------------------------
(* The command tools and the shared counter cliToolMetrics.callCount       *)

\* tool invocations one member of the phase makes
MaxInvocations == 2

\* the tools that count themselves in cliToolMetrics
CommandTools == {"exec_command", "docker_exec", "code_analysis", "coverage_runner"}

\* the shell commands code_analysis collects for an analysis type of a file
\* that is neither TypeScript, JavaScript nor Python
analysisCommands(analysisType) ==
    1 + (IF analysisType \in {"structure", "full"} THEN 3 ELSE 0)
      + (IF analysisType \in {"functions", "full"} THEN 1 ELSE 0)
      + (IF analysisType \in {"dependencies", "full"} THEN 1 ELSE 0)
      + (IF analysisType \in {"exports", "full"} THEN 1 ELSE 0)

\* the shell commands one invocation runs when none of them stops it
commandsOf(invocation) ==
    CASE invocation.tool = "code_analysis" -> analysisCommands(invocation.analysisType)
      [] invocation.tool = "coverage_runner" -> (IF invocation.install THEN 1 ELSE 0) + 1
      [] OTHER -> 1

\* what the agents of the model invoke
ToolInvocations ==
    {[tool |-> tool, analysisType |-> "none", install |-> FALSE] :
        tool \in {"exec_command", "docker_exec"}}
      \cup {[tool |-> "code_analysis", analysisType |-> analysisType, install |-> FALSE] :
               analysisType \in {"structure", "dependencies"}}
      \cup {[tool |-> "coverage_runner", analysisType |-> "none", install |-> install] :
               install \in BOOLEAN}

\* a failing command rejects the invocation of exec_command and docker_exec;
\* code_analysis catches it and coverage_runner resolves with its output
rejectsOnFailure(tool) == tool \in {"exec_command", "docker_exec"}

\* cliToolMetrics.callCount += commands.length: one count per shell command
countedPerCommand(metrics, commands) == [callCount |-> metrics.callCount + commands]

\* cliToolMetrics.callCount += 1, before the first await of execute
counted(metrics, commands) == [callCount |-> metrics.callCount + 1]

CommandFailure == Error("Error", "command failed")

InitTools ==
    /\ Resting
    /\ run = Run("tools", "none", JUndef)
    /\ sink = {}

\* execute of a command tool up to its first await: the agent of member e
\* invokes the tool, the tool counts itself and starts its first command
Invoke(e) ==
    /\ run.kind = "tools" /\ pc[e] = "idle" /\ agentCalls[e] < MaxInvocations
    /\ \E invocation \in ToolInvocations :
          /\ cliToolMetrics' = counted(cliToolMetrics, commandsOf(invocation))
          /\ inputData' = [inputData EXCEPT ![e] = JStr(Chars(invocation.tool))]
          /\ inFlight' = [inFlight EXCEPT ![e] = commandsOf(invocation)]
    /\ pc' = [pc EXCEPT ![e] = "awaiting"]
    /\ agentCalls' = [agentCalls EXCEPT ![e] = @ + 1]
    /\ lastError' = [lastError EXCEPT ![e] = Undefined]
    /\ UNCHANGED <<run, budget, attemptIndex, attemptLog, held, alerts, delivery, sink,
                   output, raised, call, outcome, env>>

\* the awaited shell command of member e settles: the invocation goes on to
\* its next command, resolves after the last one, or is rejected
CommandSettles(e) ==
    /\ run.kind = "tools" /\ pc[e] = "awaiting"
    /\ \E failed \in BOOLEAN :
          IF failed /\ rejectsOnFailure(Str(inputData[e].s))
          THEN /\ lastError' = [lastError EXCEPT ![e] = CommandFailure]
               /\ inFlight' = [inFlight EXCEPT ![e] = 0]
               /\ pc' = [pc EXCEPT ![e] = "idle"]
          ELSE /\ lastError' = lastError
               /\ inFlight' = [inFlight EXCEPT ![e] = @ - 1]
               /\ pc' = [pc EXCEPT ![e] = IF inFlight[e] = 1 THEN "idle" ELSE "awaiting"]
    /\ UNCHANGED <<run, inputData, budget, attemptIndex, attemptLog, agentCalls, held,
                   alerts, delivery, sink, output, raised, call, outcome, cliToolMetrics,
                   env>>

NextTools == \E e \in AnalysisSteps : Invoke(e) \/ CommandSettles(e)

SpecTools == InitTools /\ [][NextTools]_vars

\* the members whose agent invokes a tool in this step
Invoking == {e \in AnalysisSteps : agentCalls'[e] # agentCalls[e]}

\* C23: the shared counter never decreases and is never reset; every
\* invocation of a command tool adds exactly 1 to it, whatever the number of
\* its shell commands and whether they fail, and the invocations of the
\* members of a parallel phase that overlap lose no increment
C23_CounterCountsInvocations ==
    [][/\ cliToolMetrics'.callCount >= cliToolMetrics.callCount
       /\ cliToolMetrics'.callCount = cliToolMetrics.callCount + Cardinality(Invoking)
       /\ \A e \in AnalysisSteps :
             /\ agentCalls'[e] \in {agentCalls[e], agentCalls[e] + 1}
             /\ pc[e] = "awaiting" => agentCalls'[e] = agentCalls[e]]_vars

\* three members have made five invocations in all: one is inside
\* code_analysis with commands left, one inside coverage_runner, and the
\* exec_command of the third was rejected
C23_Witness ==
    /\ run.kind = "tools" /\ cliToolMetrics.callCount = 5
    /\ \E a, b, c \in AnalysisSteps :
          /\ pc[a] = "awaiting" /\ Str(inputData[a].s) = "code_analysis" /\ inFlight[a] = 3
          /\ pc[b] = "awaiting" /\ Str(inputData[b].s) = "coverage_runner"
          /\ pc[c] = "idle" /\ Str(inputData[c].s) = "exec_command"
          /\ lastError[c] = CommandFailure


-----------------------------------------------------------------------------
(* The branch prepareCommitAndPushStep pushes                              *)

PushStep == "prepareCommitAndPushStep"

\* the branches of the plan the push step returned with
PushedBranch == Str(Get(output[PushStep], "branchName").s)
BaseBranch == Str(Get(output[PushStep], "baseBranch").s)

\* C24: the branch prepareCommitAndPushStep checks out, commits to and pushes
\* differs from the base branch, whatever branch name the planning agent
\* returns, so that nothing is ever pushed to the base branch
C24_NeverPushesBaseBranch ==
    (run.kind = "pipeline" /\ pc[PushStep] = "returned") =>
        /\ PushedBranch # BaseBranch
        /\ \A i \in 1..Len(env.pushed) : env.pushed[i] # BaseBranch

\* whenever the agent plans another branch than the base branch, the pushed
\* branch is the planned one and not the base branch
BranchPushedAsPlanned ==
    (run.kind = "pipeline" /\ pc[PushStep] = "returned" /\ PushedBranch # BaseBranch) =>
        /\ env.pushed # <<>>
        /\ \A i \in 1..Len(env.pushed) : env.pushed[i] = PushedBranch

\* the agent planned the base branch itself and it was pushed
BaseBranchPushed ==
    /\ run.kind = "pipeline" /\ pc[PushStep] = "returned"
    /\ PushedBranch = "main" /\ BaseBranch = "main" /\ env.pushed = <<"main">>


-----------------------------------------------------------------------------
(* Failures of the push and of the pull request                            *)

PrStep == "createPullRequestStep"

\* the URLs of the pull requests GitHub creates in the model
PullRequestUrls == {"https://github.com/o/r/pull/7"}

ReturnedPrUrl == Str(Get(output[PrStep], "prUrl").s)

\* a step that threw is followed by no later step and the run does not succeed
Aborts(e) ==
    pc[e] = "threw" =>
        /\ run.status # "success"
        /\ \A later \in {"createPullRequestStep", "postPrUrlStep", "runCoverageStep",
                         "postCoverageStep", "fullPipelineOutputNormalizer"} \ {e} :
              pc[later] = "idle"

\* C25: a failed push and a pull request that was not created make the step
\* raise and the run abort, no fallback value stands in for the failure, and
\* every prUrl a step returns is the URL of a pull request really created
C25_NoFallbackForFailure ==
    run.kind = "pipeline" =>
        /\ Aborts(PushStep)
        /\ Aborts(PrStep)
        /\ pc[PrStep] = "returned" => ReturnedPrUrl \in PullRequestUrls

\* the part that holds: a push or a pull request that failed aborts the run
FailuresAbort == run.kind = "pipeline" => Aborts(PushStep) /\ Aborts(PrStep)

\* the pull request was created, its answer did not parse, and the step
\* returned the address of the list of pull requests
PullsPageReturned ==
    /\ run.kind = "pipeline" /\ pc[PrStep] = "returned"
    /\ ReturnedPrUrl = "https://github.com/o/r/pulls"
    /\ env.prRequests = 1


-----------------------------------------------------------------------------
(* projectId and containerId through the pipeline                          *)

\* the steps of the full pipeline
PipelineSteps ==
    UNION {Range(fullPipelineWorkflow[i].steps) : i \in 1..Len(fullPipelineWorkflow)}

\* the projectId the run was started with, and the container docker setup made
ProjectIdOfRun == Get(inputData["dockerSetupStep"], "projectId")
ContainerOfRun == Get(output["dockerSetupStep"], "containerId")

\* C26: every step of the pipeline returns the projectId of the pipeline
\* input, every step after docker setup returns the containerId docker setup
\* produced, and the PipelineOutput of a run that succeeded has both
C26_IdentifiersCarried ==
    run.kind = "pipeline" =>
        /\ \A e \in PipelineSteps :
              pc[e] = "returned" =>
                 /\ Get(output[e], "projectId") = ProjectIdOfRun
                 /\ Get(output[e], "containerId") = ContainerOfRun
        /\ pc["dockerSetupStep"] = "returned" =>
              /\ ProjectIdOfRun.t = "str" /\ ProjectIdOfRun.s # <<>>
              /\ ContainerOfRun.t = "str" /\ ContainerOfRun.s # <<>>
        /\ run.status = "success" =>
              /\ Satisfies(PipelineOutputSchema, run.data)
              /\ Get(run.data, "projectId") = ProjectIdOfRun
              /\ Get(run.data, "containerId") = ContainerOfRun

\* a run with faults on its way succeeded and its output has the projectId of
\* its input and the container of docker setup
C26_Witness ==
    /\ run.kind = "pipeline" /\ run.status = "success" /\ env.faults > 0
    /\ \A e \in PipelineSteps : pc[e] = "returned"
    /\ Get(run.data, "projectId") = JStr(<<"p", "2">>)
    /\ Get(run.data, "containerId") = ContainerOfRun


-----------------------------------------------------------------------------
(* The credentials file in the container                                   *)

CloneStep == "githubCloneStep"

\* C27: once githubCloneStep has copied the credentials file into the
\* container, the file is gone from the container when the run has ended,
\* also when the clone command failed
C27_CredentialsRemoved ==
    (run.kind = "pipeline" /\ Terminal) => ~env.credentials

\* after a clone that succeeded the file is gone, and no later step brings it back
RemovedAfterClone ==
    (run.kind = "pipeline" /\ pc[CloneStep] = "returned") => ~env.credentials

\* the clone command failed, the run has ended and the file is still there
CredentialsLeft ==
    /\ run.kind = "pipeline" /\ run.status = "failed"
    /\ pc[CloneStep] = "threw" /\ raised[CloneStep] = CloneFailure
    /\ env.credentials


-----------------------------------------------------------------------------
(* The container at the end of the run                                     *)

Normalizer == "fullPipelineOutputNormalizer"

\* C28: when a run of the full pipeline has ended, the container that docker
\* setup created has been torn down by the final output-normalizer step
C28_ContainerTornDown ==
    (run.kind = "pipeline" /\ Terminal /\ pc["dockerSetupStep"] = "returned") =>
        env.container # "running"

\* the container runs from docker setup on, in every later state of the run
ContainerKeptRunning ==
    (run.kind = "pipeline" /\ pc["dockerSetupStep"] = "returned") =>
        env.container = "running"

\* the normalizer has returned, the run has succeeded and the container runs
ContainerLeftRunning ==
    /\ run.kind = "pipeline" /\ run.status = "success"
    /\ pc[Normalizer] = "returned" /\ env.container = "running"


-----------------------------------------------------------------------------
(* The order of the tiers of the parsing pipeline                          *)

\* the call got past the agent and the gate, to the tiers
TiersEntered ==
    run.kind = "parse" /\ call.fn # "none" /\ outcome.tier \notin {"gate", "agent", "none"}

\* what the call comes to when its tiers are first and second
InOrder(first, second) ==
    IF first.ok THEN outcome = Returned(first.v, "first")
    ELSE IF ~call.attemptRecovery
    THEN ~outcome.ok /\ outcome.tier = "first" /\ outcome.error = first.error
    ELSE /\ outcome.tier = "recovery"
         /\ outcome.ok = second.ok
         /\ second.ok => outcome.v = second.v

\* C29: Recovery runs only after the first tier of parsing, normalizing and
\* validating has failed and only if recovery is enabled, at most once; the
\* recovered text is again parsed, normalized and validated; a first tier
\* that succeeds returns at once, without Recovery
C29_RecoveryAfterFirstTier ==
    TiersEntered =>
        InOrder(parseNormalizeValidate(jsonTextOfCall, SchemaOf[call.schema]),
                contextRecoveryTier(jsonTextOfCall, SchemaOf[call.schema]))

\* the order holds of both functions when each is given its own tiers:
\* parseAgentJsonResponse parses and validates without normalizing
TiersInOrder == TiersEntered => InOrder(firstTier, recoveryTier)

\* parseAgentJsonResponse ran Recovery on, and then rejected, an answer that
\* parsing, normalizing and validating accepts as it is
DriftNotNormalized ==
    /\ TiersEntered /\ call.fn = "parseAgentJsonResponse" /\ call.attemptRecovery
    /\ call.response = "repo_drift" /\ call.schema = "repository"
    /\ parseNormalizeValidate(jsonTextOfCall, SchemaOf[call.schema]).ok
    /\ outcome.tier = "recovery" /\ ~outcome.ok


-----------------------------------------------------------------------------
(* Parallel phases: the input of the members and the keys of the join      *)

\* the parallel-output schemas that types/pipeline-schemas.ts declares, whose
\* member schemas have the shape of the step files' own
PipelineParallelPostProjectOutputSchema ==
    ZObject(<< F("post-project-description-step", PostProjectStepOutputSchema),
               F("post-project-stack-step", PostProjectStepOutputSchema) >>)

ParallelAnalysisOutputSchema ==
    ZObject(<< F("analyze-repository-step", AnalyzeRepositoryOutputSchema),
               F("analyze-codebase-step", AnalyzeCodebaseOutputSchema),
               F("analyze-build-deployment-step", AnalyzeBuildDeploymentOutputSchema) >>)

\* the steps that follow a parallel phase, and the keys each reads from its input
JoinReaders == {"dockerSaveContextStep", "synthesizeContextStep"}

KeysRead ==
    [dockerSaveContextStep |-> {"postProjectDescriptionStep"},
     synthesizeContextStep |-> {"analyzeRepositoryStep", "analyzeCodebaseStep",
                                "analyzeBuildDeploymentStep"}]

\* the schemas the step files declare for the join record each reader is given
OwnJoinSchema ==
    [dockerSaveContextStep |-> ParallelPostProjectOutputSchema,
     synthesizeContextStep |-> ParallelAnalysisInputSchema]

\* the schemas types/pipeline-schemas.ts declares for the same join records
SharedJoinSchema ==
    [dockerSaveContextStep |-> PipelineParallelPostProjectOutputSchema,
     synthesizeContextStep |-> ParallelAnalysisOutputSchema]

KeysOf(schema) == {schema.fields[i].k : i \in 1..Len(schema.fields)}

StageOf(e) ==
    CHOOSE i \in 1..Len(fullPipelineWorkflow) : e \in Range(fullPipelineWorkflow[i].steps)

\* the member steps of the phase before the reader
MembersBefore(reader) == Range(fullPipelineWorkflow[StageOf(reader) - 1].steps)

\* every started member of a parallel phase was given the output of the step
\* before the phase
SameInputForMembers ==
    \A i \in ParallelStages : \A e \in Range(fullPipelineWorkflow[i].steps) :
        pc[e] # "idle" => inputData[e] = output[fullPipelineWorkflow[i - 1].steps[1]]

\* the record a started reader was given has the member identifiers as its
\* keys, and under each the output of that member
KeyedByMembers(reader) ==
    pc[reader] # "idle" =>
        /\ inputData[reader].t = "obj"
        /\ {inputData[reader].kv[i].k : i \in 1..Len(inputData[reader].kv)}
              = MembersBefore(reader)
        /\ \A e \in MembersBefore(reader) : Get(inputData[reader], e) = output[e]

\* C30: the members of a parallel phase all receive the preceding output as
\* their input, the join record is keyed by the identifiers of the members,
\* and every key that synthesizeContextStep and dockerSaveContextStep read,
\* and every key of the declared parallel-output schemas, is the identifier
\* of a member of the phase before
C30_JoinKeyedByMemberIds ==
    run.kind = "pipeline" =>
        /\ SameInputForMembers
        /\ \A reader \in JoinReaders :
              /\ KeyedByMembers(reader)
              /\ pc[reader] # "idle" =>
                    /\ KeysRead[reader] \subseteq MembersBefore(reader)
                    /\ KeysOf(OwnJoinSchema[reader]) \subseteq MembersBefore(reader)
                    /\ KeysOf(SharedJoinSchema[reader]) \subseteq MembersBefore(reader)

\* what holds: the same input, the keys of the join, the keys read and the
\* keys of the schemas that the step files declare themselves
JoinMatchesStepFiles ==
    run.kind = "pipeline" =>
        /\ SameInputForMembers
        /\ \A reader \in JoinReaders :
              /\ KeyedByMembers(reader)
              /\ pc[reader] # "idle" =>
                    /\ KeysRead[reader] \subseteq MembersBefore(reader)
                    /\ KeysOf(OwnJoinSchema[reader]) = MembersBefore(reader)
                    /\ Satisfies(OwnJoinSchema[reader], inputData[reader])

\* synthesizeContextStep was given the join record of the three analysis
\* steps, which the schema of types/pipeline-schemas.ts rejects, none of its
\* keys being in the record
SharedSchemaRejectsJoin ==
    /\ run.kind = "pipeline" /\ pc["synthesizeContextStep"] # "idle"
    /\ KeysOf(ParallelAnalysisOutputSchema) \cap MembersBefore("synthesizeContextStep") = {}
    /\ ~Satisfies(ParallelAnalysisOutputSchema, inputData["synthesizeContextStep"])
    /\ Satisfies(ParallelAnalysisInputSchema, inputData["synthesizeContextStep"])


-----------------------------------------------------------------------------
(* Trailing commas in the result of attemptJsonRecovery                    *)

\* a comma of the text is followed, after blanks at most, by another comma
CommaBeforeComma(s) ==
    \E p \in 1..Len(s) :
        s[p] = "," /\ \E q \in (p + 1)..Len(s) :
                         s[q] = "," /\ \A k \in (p + 1)..(q - 1) : s[k] \in WS

\* the text ends, blanks aside, with a comma
EndsWithComma(s) ==
    \E p \in 1..Len(s) : s[p] = "," /\ \A k \in (p + 1)..Len(s) : s[k] \in WS

\* C31: for every string s the result of attemptJsonRecovery has no trailing
\* comma, no comma followed by blanks at most and then by '}' or ']'; for
\* {"a":1,} the result is {"a":1} and it parses
C31_NoTrailingCommaLeft ==
    Recovered =>
        /\ NoTrailingComma(outcome.v.s)
        /\ run.data.s = Chars("{\"a\":1,}") =>
              /\ outcome.v.s = Chars("{\"a\":1}")
              /\ JSONparse(outcome.v.s).ok

\* what holds: the result has no trailing comma when no comma of the text
\* stands before another comma and no brace is appended behind a comma, and
\* the example comes out as claimed
SingleCommasRemoved ==
    Recovered =>
        /\ (~CommaBeforeComma(run.data.s)
            /\ ~(Missing(run.data.s) > 0 /\ EndsWithComma(run.data.s)))
              => NoTrailingComma(outcome.v.s)
        /\ run.data.s = Chars("{\"a\":1,}") =>
              /\ outcome.v.s = Chars("{\"a\":1}")
              /\ JSONparse(outcome.v.s).ok

\* an object cut off behind a comma was closed behind that comma
BraceAppendedBehindComma ==
    /\ Recovered /\ run.data.s = <<"{", ",">> /\ outcome.v.s = <<"{", ",", "}">>
    /\ ~JSONparse(outcome.v.s).ok


-----------------------------------------------------------------------------
(* normalizeRepoType and normalizePackageType on written types             *)

\* what an agent writes for a type, between what may stand before and behind it
TypeWords ==
    {"", "monorepo", "Mono Repo", "single-package", "Single  Package", "MULTI-PROJECT",
     "multi repo", "multimono", "workspace", "library", "LIB", "app", "application",
     "webapp-lib", "tool", "tooling app", "config", "cfg", "my-cfg-tool", "configurable tool",
     "unknown", "service"}

TypeInputs ==
    {JStr(Chars(pre \o word \o post)) :
        pre \in {"", " ", "x"}, word \in TypeWords, post \in {"", "\n", "s"}}
      \cup {JNull, JUndef, JBool(TRUE), Num(1), JArr(<<>>), JObj(<<>>)}

InitClassify ==
    /\ Resting
    /\ \E v \in TypeInputs : run = Run("classify", "none", v)
    /\ sink = {}

\* normalizeRepoType and normalizePackageType applied to the value
CallClassify ==
    /\ run.kind = "classify" /\ call.fn = "none"
    /\ call' = [NoCall EXCEPT !.fn = "normalizeRepoType"]
    /\ outcome' = Returned(JObj(<< P("repoType", JStr(normalizeRepoType(run.data))),
                                   P("packageType", JStr(normalizePackageType(run.data))) >>),
                           "none")
    /\ UNCHANGED <<run, inputData, pc, budget, attemptIndex, inFlight, lastError,
                   attemptLog, agentCalls, held, alerts, delivery, sink, output, raised,
                   cliToolMetrics, env>>

NextClassify == CallClassify

SpecClassify == InitClassify /\ [][NextClassify]_vars

Classified == run.kind = "classify" /\ call.fn = "normalizeRepoType"

RepoTypeGiven == Str(Get(outcome.v, "repoType").s)
PackageTypeGiven == Str(Get(outcome.v, "packageType").s)

\* the written value trimmed and in lower case
Lowered == toLowerCase(trim(run.data.s))

Has(text, part) == Contains(text, Chars(part))

\* the repository type claimed for a written value that was trimmed, put in
\* lower case and had its runs of blanks turned into hyphens
RepoTypeFor(v) ==
    IF Str(v) \in {"monorepo", "single-package", "multi-project"} THEN Str(v)
    ELSE IF Has(v, "mono") THEN "monorepo"
    ELSE IF Has(v, "multi") THEN "multi-project"
    ELSE "single-package"

\* the package type claimed for a written value that was trimmed and put in
\* lower case
PackageTypeFor(v) ==
    IF Str(v) \in {"app", "library", "tool", "config", "unknown"} THEN Str(v)
    ELSE IF Has(v, "lib") THEN "library"
    ELSE IF Has(v, "app") THEN "app"
    ELSE IF Has(v, "tool") THEN "tool"
    ELSE IF Has(v, "config") \/ Has(v, "cfg") THEN "config"
    ELSE "unknown"

\* C32: normalizeRepoType gives monorepo, single-package or multi-project for
\* every input: an allowed value (trimmed, lower-cased, blanks to hyphens)
\* gives itself, else one with "mono" monorepo, else one with "multi"
\* multi-project, and all else, non-strings too, single-package;
\* normalizePackageType gives app, library, tool, config or unknown, looking
\* for lib, app, tool and config or cfg in that order, unknown otherwise
C32_TypesClassified ==
    Classified =>
        /\ RepoTypeGiven \in {"monorepo", "single-package", "multi-project"}
        /\ PackageTypeGiven \in {"app", "library", "tool", "config", "unknown"}
        /\ run.data.t # "str" => RepoTypeGiven = "single-package" /\ PackageTypeGiven = "unknown"
        /\ run.data.t = "str" =>
              \E lowered \in {Lowered} :
                 /\ RepoTypeGiven = Once(RepoTypeFor, hyphenate(lowered, 1))
                 /\ PackageTypeGiven = PackageTypeFor(lowered)

\* a value with both "multi" and "mono" was classified as a monorepo and as
\* an unknown package
C32_Witness ==
    /\ Classified /\ run.data = JStr(Chars(" multimono\n"))
    /\ RepoTypeGiven = "monorepo" /\ PackageTypeGiven = "unknown"

\* blanks become one hyphen and the order of the substrings decides
TypeExamples ==
    Classified =>
        /\ run.data = JStr(Chars("Single  Package")) => RepoTypeGiven = "single-package"
        /\ run.data = JStr(Chars("Mono Repo")) => RepoTypeGiven = "monorepo"
        /\ run.data = JStr(Chars("webapp-lib")) => PackageTypeGiven = "library"
        /\ run.data = JStr(Chars("tooling app")) => PackageTypeGiven = "app"
        /\ run.data = JStr(Chars("my-cfg-tool")) => PackageTypeGiven = "tool"
        /\ run.data = JStr(Chars("xconfigurable tools")) => PackageTypeGiven = "tool"


-----------------------------------------------------------------------------
(* The order of the alerts of one analysis step                            *)

\* the positions of the alerts of execution e with one of the statuses
AlertsWith(e, statuses) == {i \in 1..Len(alerts[e]) : alerts[e][i].status \in statuses}

\* the attempts of execution e that failed and were not the last of the budget
NonFinalFailures(e) ==
    {i \in 1..Len(attemptLog[e]) : ~attemptLog[e][i].ok /\ i < StepMaxAttempts}

\* C33: the alerts of one execution of an analysis step are one starting alert,
\* then one in_progress warning per failed attempt that was not the last, at
\* most maxAttempts - 1 of them, then exactly one terminal alert: completed
\* when an attempt succeeded, failed when every attempt failed, never both.
C33_AlertsInOrder ==
    \A e \in AnalysisSteps :
        LET n == Len(alerts[e])
            warnings == AlertsWith(e, {"in_progress"})
            terminal == AlertsWith(e, {"completed", "failed"})
        IN  /\ pc[e] # "idle" => AlertsWith(e, {"starting"}) = {1}
            /\ warnings \subseteq 2..StepMaxAttempts
            /\ \A i \in warnings :
                  /\ alerts[e][i].level = "warning"
                  /\ alerts[e][i].attempt = i - 1
                  /\ \A j \in 2..i : j \in warnings
            /\ Cardinality(warnings) = Cardinality(NonFinalFailures(e))
            /\ Cardinality(terminal) <= 1
            /\ terminal \subseteq {n}
            /\ pc[e] \in {"completing", "failing", "returned"} <=> terminal # {}
            /\ terminal # {} =>
                  /\ alerts[e][n].status = "completed" <=> ~AllFailed(e)
                  /\ alerts[e][n].status = "failed" <=>
                        (AllFailed(e) /\ Len(attemptLog[e]) = StepMaxAttempts)

\* the codebase step returned after two failed attempts and a third that
\* succeeded: starting, two warnings, completed
C33_Witness ==
    /\ pc["analyzeCodebaseStep"] = "returned"
    /\ Len(attemptLog["analyzeCodebaseStep"]) = StepMaxAttempts
    /\ ~AllFailed("analyzeCodebaseStep")
    /\ Len(alerts["analyzeCodebaseStep"]) = 4
    /\ alerts["analyzeCodebaseStep"][4].status = "completed"


-----------------------------------------------------------------------------
(* The failures of dockerSaveContextStep                                   *)

SaveStep == "dockerSaveContextStep"

\* the output of the description step, as the save step reads it from the join
DescriptionOutput == Get(inputData[SaveStep], "postProjectDescriptionStep")

\* the last alert the save step has emitted
SaveLastAlert == alerts[SaveStep][Len(alerts[SaveStep])]

\* C35: dockerSaveContextStep never throws. When the context data is missing
\* or the copy or the verification fails it emits a failed alert and returns
\* success = false with the containerId, the projectId and the repoPath (or
\* "/app") of the description step's output, and the run goes on to the
\* context-gathering phase.
C35_SaveFailureReturned ==
    /\ pc[SaveStep] # "threw"
    /\ pc[SaveStep] = "returned" =>
          /\ ~Truthy(Get(DescriptionOutput, "contextData")) =>
                Get(output[SaveStep], "success") = JBool(FALSE)
          /\ ~env.contextFile => Get(output[SaveStep], "success") = JBool(FALSE)
          /\ Get(output[SaveStep], "success") = JBool(FALSE) =>
                /\ SaveLastAlert.status = "failed" /\ SaveLastAlert.level = "error"
                /\ Get(output[SaveStep], "containerId") = Get(DescriptionOutput, "containerId")
                /\ Get(output[SaveStep], "projectId") = Get(DescriptionOutput, "projectId")
                /\ Get(output[SaveStep], "repoPath") =
                      OrElse(Get(DescriptionOutput, "repoPath"), JStr(<<"/", "a", "p", "p">>))
          /\ Get(output[SaveStep], "success") = JBool(TRUE) =>
                SaveLastAlert.status = "completed"
          /\ run.status = "failed" => \E e \in PipelineSteps : pc[e] = "threw"
    /\ pc["contextGatheringStartStep"] # "idle" =>
          inputData["contextGatheringStartStep"] = output[SaveStep]

\* a run started without context data has entered the context-gathering phase
\* with the success = false output of the save step
C35_Witness ==
    /\ pc[SaveStep] = "returned"
    /\ Get(DescriptionOutput, "contextData") = JUndef
    /\ Get(output[SaveStep], "success") = JBool(FALSE)
    /\ Get(output[SaveStep], "repoPath") = Get(DescriptionOutput, "repoPath")
    /\ pc["analyzeRepositoryStep"] = "attempt"

\* the verification of the copied file failed and the step returned
VerificationFailureReturned ==
    /\ pc[SaveStep] = "returned"
    /\ env.contextFile
    /\ Get(output[SaveStep], "success") = JBool(FALSE)


-----------------------------------------------------------------------------
(* The success flag of the pipeline output                                 *)

\* the success flag of the value execution e returned
SuccessOf(e) == Get(output[e], "success")

\* C34: every output of the full pipeline has success = true: runCoverageStep
\* throws or returns success = true, postCoverageStep and the output normalizer
\* hand that value on, and the success = false of an earlier step does not
\* reach the output.
C34_OutputSucceeds ==
    /\ pc["runCoverageStep"] = "returned" => SuccessOf("runCoverageStep") = JBool(TRUE)
    /\ pc["postCoverageStep"] = "returned" =>
          SuccessOf("postCoverageStep") = Get(inputData["postCoverageStep"], "success")
    /\ pc[Normalizer] = "returned" =>
          /\ SuccessOf(Normalizer) = Get(inputData[Normalizer], "success")
          /\ SuccessOf(Normalizer) = JBool(TRUE)
    /\ (run.kind = "pipeline" /\ run.status = "success") =>
          Get(run.data, "success") = JBool(TRUE)

\* the save step returned success = false and the pipeline output has success = true
C34_Witness ==
    /\ run.status = "success"
    /\ SuccessOf("dockerSaveContextStep") = JBool(FALSE)
    /\ SuccessOf(Normalizer) = JBool(TRUE)


-----------------------------------------------------------------------------
(* The requests of createPullRequestStep                                   *)

\* the positions in the log of the outside world of the creation requests
RequestsAt == {i \in 1..Len(env.log) : env.log[i] = "request"}

\* a push was made between the two requests at i and k
PushedBetween(i, k) == \E j \in (i + 1)..(k - 1) : env.log[j] = "push"

\* C36: one execution of createPullRequestStep sends at most two creation
\* requests; the second only after the first was rejected with status 422 and
\* a "no commits" message and an empty commit was force-pushed to the branch;
\* when the second is rejected too the step throws and sends no third.
C36_AtMostTwoRequests ==
    /\ Len(env.answers) = env.prRequests
    /\ env.prRequests <= 2
    /\ pc[PrStep] = "idle" => env.prRequests = 0
    /\ env.prRequests = 2 =>
          /\ env.answers[1].status = 422
          /\ includes(toLowerCase(env.answers[1].text), S_noCommits)
          /\ \A i, k \in RequestsAt : i < k => PushedBetween(i, k)
          /\ env.pushed[Len(env.pushed)] = Str(JSString(Get(inputData[PrStep], "branchName")))
          /\ env.answers[2].ok <=> pc[PrStep] = "returned"
          /\ ~env.answers[2].ok <=> pc[PrStep] = "threw"
    /\ (env.prRequests = 1 /\ ~env.answers[1].ok) => pc[PrStep] = "threw"

\* the second request was rejected as the first was, and the step threw after
\* two requests
C36_Witness ==
    /\ pc[PrStep] = "threw"
    /\ env.prRequests = 2
    /\ env.answers[2].status = 422
    /\ env.log[Len(env.log)] = "request"


-----------------------------------------------------------------------------
(* result, toolCallCount and contextPath through the PR and coverage steps *)

\* the steps of the pull request phase and of the coverage phase
CarryingSteps ==
    {"prepareCommitAndPushStep", "createPullRequestStep", "postPrUrlStep", "runCoverageStep",
     "postCoverageStep"}

CarriedKeys == {"result", "toolCallCount", "contextPath"}

\* C37: prepareCommitAndPushStep, createPullRequestStep, postPrUrlStep,
\* runCoverageStep and postCoverageStep return the result, the toolCallCount
\* and the contextPath of their input, so the toolCallCount of the pipeline
\* output is the one carried into the pull request phase, whatever the shared
\* counter has come to since.
C37_CountCarriedUnchanged ==
    /\ \A e \in CarryingSteps : pc[e] = "returned" =>
          \A k \in CarriedKeys : Get(output[e], k) = Get(inputData[e], k)
    /\ pc[Normalizer] = "returned" =>
          /\ Get(output[Normalizer], "toolCallCount") =
                Get(inputData["prepareCommitAndPushStep"], "toolCallCount")
          /\ Get(output[Normalizer], "result") =
                Get(inputData["prepareCommitAndPushStep"], "result")
          /\ Get(output[Normalizer], "contextPath") =
                Get(inputData["prepareCommitAndPushStep"], "contextPath")

\* the pipeline returned the count carried into the pull request phase while
\* the shared counter had gone on to a higher value
C37_Witness ==
    /\ pc[Normalizer] = "returned"
    /\ Get(output[Normalizer], "toolCallCount").t = "num"
    /\ Get(output[Normalizer], "toolCallCount") # Num(cliToolMetrics.callCount)
    /\ Get(output[Normalizer], "toolCallCount") =
          Get(inputData["prepareCommitAndPushStep"], "toolCallCount")


-----------------------------------------------------------------------------
(* withRetryAndAlerts without a budget                                     *)

-----------------------------------------------------------------------------
(* Completed alerts of executions that throw                               *)

\* execution e has emitted a completed alert
CompletedEmitted(e) == AlertsWith(e, {"completed"}) # {}

\* C39: no step emits a completed alert for an execution that ends by
\* throwing: a completed alert is emitted only by an execution that then
\* returns an output, runCoverageStep with isValid = false included.
C39_CompletedOnlyWhenReturned ==
    run.kind = "pipeline" =>
        \A e \in PipelineSteps : CompletedEmitted(e) => pc[e] \in {"completing", "returned"}

\* the part that holds: every step but runCoverageStep returns after a
\* completed alert, and runCoverageStep does unless its project is invalid
CompletedReturnsElsewhere ==
    run.kind = "pipeline" =>
        \A e \in PipelineSteps :
            (CompletedEmitted(e) /\ pc[e] \notin {"completing", "returned"}) =>
                /\ e = "runCoverageStep"
                /\ alerts[e][Len(alerts[e])].title = "Project validation failed"

\* runCoverageStep threw "Invalid project" after its completed alert
CompletedThenThrown ==
    /\ pc["runCoverageStep"] = "threw"
    /\ CompletedEmitted("runCoverageStep")
    /\ run.status = "failed"

=============================================================================
